---- MODULE Spec2Model ----
(***************************************************************************)
(* A model of the 9S core of beewallet-core-spark: path grammar, the       *)
(* memory and file namespaces, the mount kernel, the patch engine and the  *)
(* git-like Store.                                                         *)
(*                                                                         *)
(* Strings of the program are sequences of one-character strings, so that  *)
(* prefix tests, splitting and escaping are computed as the code computes  *)
(* them.  The filesystem is a map from file paths (sequences of path       *)
(* components) to file contents; a directory exists when a file lies       *)
(* under it.                                                               *)
(***************************************************************************)
EXTENDS Integers, Sequences, FiniteSets, TLC

VARIABLES
    files,      \* the directory of a Store or FileNamespace: file path -> content
    versions,   \* FileNamespace.versions, the version cache
    mem,        \* the MemoryNamespaces: name -> (path -> scroll)
    mounts,     \* Kernel.mounts: mount path -> name of the namespace mounted
    threads,    \* where each thread stands within a namespace operation
    anchorLog,  \* history variable: the anchors taken, with the state anchored
    writeLog,   \* history variable: per key, what each write persisted or returned
    ret,        \* result of the last operation
    budget,     \* operations the clients may still start
    watchers,   \* the watcher table of each namespace
    chans,      \* the bounded channels: buffer, receiver and senders
    closed,     \* the closed flag of each namespace
    forwarders, \* the forwarder threads of Kernel::watch and Store::watch_decrypted
    limiter,    \* VaultStore.rate_limiter
    now,        \* the monotonic clock (Instant::now), in seconds
    session     \* the SessionManager

vars == <<files, versions, mem, mounts, threads, anchorLog, writeLog, ret, budget,
          watchers, chans, closed, forwarders, limiter, now, session>>

watchVars == <<watchers, chans, closed, forwarders>>
vaultVars == <<limiter, now, session>>

\* No namespace with watchers exists
NoWatch == watchers = <<>> /\ chans = <<>> /\ closed = <<>> /\ forwarders = <<>>

\* No vault store is open
NoVault == limiter = <<>> /\ now = 0 /\ session = <<>>

-----------------------------------------------------------------------------
(* Strings                                                                 *)

Slash == "/"

Digits == <<"0", "1", "2", "3", "4", "5", "6", "7", "8", "9">>

Letters == {"a", "b", "c", "d", "e", "f", "g", "h", "i", "j", "k", "l", "m",
            "n", "o", "p", "q", "r", "s", "t", "u", "v", "w", "x", "y", "z"}

IsDigit(c) == \E i \in 1..10 : Digits[i] = c

\* char::is_alphanumeric, on the characters the model uses
IsAlphanumeric(c) == c \in Letters \/ IsDigit(c)

StartsWith(s, p) == Len(s) >= Len(p) /\ SubSeq(s, 1, Len(p)) = p

EndsWith(s, p) == Len(s) >= Len(p) /\ SubSeq(s, Len(s) - Len(p) + 1, Len(s)) = p

\* s[n..] of Rust, n a 0-based byte offset
From(s, n) == SubSeq(s, n + 1, Len(s))

\* s[..n] of Rust
UpTo(s, n) == SubSeq(s, 1, n)

Contains(s, c) == \E i \in 1..Len(s) : s[i] = c

\* str::split(c): the pieces between the occurrences of c, empty ones kept
RECURSIVE SplitAcc(_, _, _)
SplitAcc(s, c, cur) ==
    IF s = <<>> THEN <<cur>>
    ELSE IF Head(s) = c THEN <<cur>> \o SplitAcc(Tail(s), c, <<>>)
    ELSE SplitAcc(Tail(s), c, Append(cur, Head(s)))

Split(s, c) == SplitAcc(s, c, <<>>)

RECURSIVE Join(_, _)
Join(parts, sep) ==
    IF parts = <<>> THEN <<>>
    ELSE IF Len(parts) = 1 THEN parts[1]
    ELSE parts[1] \o sep \o Join(Tail(parts), sep)

RECURSIVE FilterNonEmpty(_)
FilterNonEmpty(parts) ==
    IF parts = <<>> THEN <<>>
    ELSE IF Head(parts) = <<>> THEN FilterNonEmpty(Tail(parts))
    ELSE <<Head(parts)>> \o FilterNonEmpty(Tail(parts))

\* str::trim_start_matches(c)
RECURSIVE TrimStartMatches(_, _)
TrimStartMatches(s, c) ==
    IF s # <<>> /\ Head(s) = c THEN TrimStartMatches(Tail(s), c) ELSE s

\* str::replace(pat, rep): left to right, non-overlapping
RECURSIVE Replace(_, _, _)
Replace(s, pat, rep) ==
    IF s = <<>> THEN <<>>
    ELSE IF StartsWith(s, pat) THEN rep \o Replace(From(s, Len(pat)), pat, rep)
    ELSE <<Head(s)>> \o Replace(Tail(s), pat, rep)

\* str::parse::<u64>() / parse::<usize>(): -1 stands for Err
DigitValue(c) == CHOOSE i \in 0..9 : Digits[i + 1] = c

RECURSIVE ParseDigits(_, _)
ParseDigits(s, acc) ==
    IF s = <<>> THEN acc
    ELSE ParseDigits(Tail(s), acc * 10 + DigitValue(Head(s)))

ParseU64(s) ==
    LET body == IF s # <<>> /\ Head(s) = "+" THEN Tail(s) ELSE s
    IN  IF body # <<>> /\ \A i \in 1..Len(body) : IsDigit(body[i])
        THEN ParseDigits(body, 0)
        ELSE -1

\* format!("{:08}", n)
RECURSIVE DecimalDigits(_)
DecimalDigits(n) ==
    IF n < 10 THEN <<Digits[n + 1]>>
    ELSE Append(DecimalDigits(n \div 10), Digits[(n % 10) + 1])

RECURSIVE ZeroPad(_, _)
ZeroPad(s, width) == IF Len(s) >= width THEN s ELSE ZeroPad(<<"0">> \o s, width)

Format08(n) == ZeroPad(DecimalDigits(n), 8)

-----------------------------------------------------------------------------
(* Path grammar (namespace.rs)                                             *)

Root == <<"/">>

\* Result values: [ok |-> TRUE, val |-> v] or [ok |-> FALSE, err |-> e]
Ok(v) == [ok |-> TRUE, val |-> v]
Err(e) == [ok |-> FALSE, err |-> e]

SegmentCharOk(c) == IsAlphanumeric(c) \/ c = "_" \/ c = "." \/ c = "-" \/ c = "*"

IsTraversalSegment(seg) == seg = <<".">> \/ seg = <<".", ".">>

\* Variant of the segment check that lets "." and ".." through
SegmentOk_lenient(path, seg) ==
    \/ (seg = <<>> /\ path # Root)
    \/ (\A i \in 1..Len(seg) : SegmentCharOk(seg[i]))

SegmentOk(path, seg) ==
    \/ (seg = <<>> /\ path # Root)
    \/ (~IsTraversalSegment(seg) /\ \A i \in 1..Len(seg) : SegmentCharOk(seg[i]))

validate_path(path) ==
    /\ path # <<>>
    /\ Head(path) = Slash
    /\ LET segs == Tail(Split(path, Slash))
       IN  \A i \in 1..Len(segs) : SegmentOk(path, segs[i])

path_matches(path, pattern) ==
    IF path = pattern THEN TRUE
    ELSE IF EndsWith(pattern, <<"/", "*">>)
    THEN LET prefix == UpTo(pattern, Len(pattern) - 1)
         IN  StartsWith(path, prefix) /\ ~Contains(From(path, Len(prefix)), Slash)
    ELSE IF EndsWith(pattern, <<"/", "*", "*">>)
    THEN StartsWith(path, UpTo(pattern, Len(pattern) - 2))
    ELSE FALSE

is_path_under_prefix(path, prefix) ==
    IF prefix = Root THEN StartsWith(path, Root)
    ELSE IF path = prefix THEN TRUE
    ELSE IF StartsWith(path, prefix) THEN StartsWith(From(path, Len(prefix)), Root)
    ELSE FALSE

-----------------------------------------------------------------------------
(* JSON values (serde_json::Value) and scrolls (scroll.rs)                 *)

JNull == [t |-> "null"]
JStr(s) == [t |-> "str", s |-> s]
JNum(n) == [t |-> "num", n |-> n]
JArr(a) == [t |-> "arr", a |-> a]
JObj(m) == [t |-> "obj", m |-> m]

IsObj(v) == v.t = "obj"
IsArr(v) == v.t = "arr"

EmptyMap == <<>>

\* The object keys the model uses, in the order of serde_json's map (byte order)
ObjKeys == << <<>>, <<"/">>, <<"a">>, <<"b">>, <<"~">>, <<"~", "0">>, <<"~", "1">> >>

InMap(m, k) == k \in DOMAIN m

\* Map::keys(): the keys of m in map order
KeysOf(m) == SelectSeq(ObjKeys, LAMBDA k : InMap(m, k))

MapInsert(m, k, v) == [x \in (DOMAIN m) \cup {k} |-> IF x = k THEN v ELSE m[x]]

MapRemove(m, k) == [x \in (DOMAIN m) \ {k} |-> m[x]]

NoneV == [some |-> FALSE]
Some(v) == [some |-> TRUE, v |-> v]

GenericType == "scroll/generic@v1"

\* serde_json::to_string
RECURSIVE to_string(_)
RECURSIVE MembersToString(_, _)
RECURSIVE ElementsToString(_)
MembersToString(m, keys) ==
    IF keys = <<>> THEN <<>>
    ELSE <<"\"">> \o Head(keys) \o <<"\"", ":">> \o to_string(m[Head(keys)])
         \o (IF Len(keys) > 1 THEN <<",">> ELSE <<>>)
         \o MembersToString(m, Tail(keys))

ElementsToString(a) ==
    IF a = <<>> THEN <<>>
    ELSE to_string(Head(a)) \o (IF Len(a) > 1 THEN <<",">> ELSE <<>>)
         \o ElementsToString(Tail(a))

to_string(v) ==
    IF v.t = "null" THEN <<"null">>
    ELSE IF v.t = "num" THEN DecimalDigits(v.n)
    ELSE IF v.t = "arr" THEN <<"[">> \o ElementsToString(v.a) \o <<"]">>
    ELSE IF v.t = "obj" THEN <<"{">> \o MembersToString(v.m, KeysOf(v.m)) \o <<"}">>
    ELSE IF v.t = "str" THEN <<"\"">> \o v.s \o <<"\"">>
    ELSE <<"sealed", v.key>> \o v.pt.key \o <<v.pt.type_>> \o DecimalDigits(v.pt.version)
         \o to_string(v.pt.data)

\* Scroll::compute_hash: SHA-256 over key, type and JSON(data).  The digest is
\* modelled by the text it is computed from (SHA-256 taken as injective); the
\* type is one token of that text.
compute_hash(scroll) == <<"sha256">> \o scroll.key \o <<scroll.type_>> \o to_string(scroll.data)

\* Scroll::new
ScrollNew(key, data) ==
    [key |-> key, type_ |-> GenericType, version |-> 0, hash |-> NoneV, data |-> data]

\* Scroll::typed
ScrollTyped(key, data, type_) ==
    [key |-> key, type_ |-> type_, version |-> 0, hash |-> NoneV, data |-> data]

-----------------------------------------------------------------------------
(* Patch engine (patch.rs)                                                 *)

OpAdd(path, value) == [op |-> "add", path |-> path, value |-> value]
OpRemove(path) == [op |-> "remove", path |-> path]
OpReplace(path, value) == [op |-> "replace", path |-> path, value |-> value]
OpMove(from, path) == [op |-> "move", from |-> from, path |-> path]
OpCopy(from, path) == [op |-> "copy", from |-> from, path |-> path]
OpTest(path, value) == [op |-> "test", path |-> path, value |-> value]

\* json_pointer that does not escape the key
json_pointer_unescaped(base, key) == base \o <<"/">> \o key

\* Build JSON pointer path (RFC 6901)
json_pointer(base, key) ==
    base \o <<"/">> \o Replace(Replace(key, <<"~">>, <<"~", "0">>), <<"/">>, <<"~", "1">>)

RECURSIVE UnescapeAll(_)
UnescapeAll(parts) ==
    IF parts = <<>> THEN <<>>
    ELSE <<Replace(Replace(Head(parts), <<"~", "1">>, <<"/">>), <<"~", "0">>, <<"~">>)>>
         \o UnescapeAll(Tail(parts))

parse_pointer(pointer) ==
    IF ~StartsWith(pointer, <<"/">>) THEN Err("InvalidPointer")
    ELSE Ok(UnescapeAll(Split(From(pointer, 1), Slash)))

RECURSIVE compute_diff(_, _, _)
RECURSIVE DiffNewKeys(_, _, _, _)

RECURSIVE DiffRemovedKeys(_, _, _)
DiffRemovedKeys(path, keys, new_obj) ==
    IF keys = <<>> THEN <<>>
    ELSE (IF ~InMap(new_obj, Head(keys))
          THEN <<OpRemove(json_pointer(path, Head(keys)))>>
          ELSE <<>>)
         \o DiffRemovedKeys(path, Tail(keys), new_obj)

DiffNewKeys(path, keys, old_obj, new_obj) ==
    IF keys = <<>> THEN <<>>
    ELSE LET key == Head(keys)
             key_path == json_pointer(path, key)
         IN  (IF ~InMap(old_obj, key)
              THEN <<OpAdd(key_path, new_obj[key])>>
              ELSE IF old_obj[key] # new_obj[key]
              THEN compute_diff(key_path, old_obj[key], new_obj[key])
              ELSE <<>>)
             \o DiffNewKeys(path, Tail(keys), old_obj, new_obj)

compute_diff(path, old, new) ==
    IF IsObj(old) /\ IsObj(new)
    THEN DiffRemovedKeys(path, KeysOf(old.m), new.m)
         \o DiffNewKeys(path, KeysOf(new.m), old.m, new.m)
    ELSE IF old # new THEN <<OpReplace(path, new)>>
    ELSE <<>>

\* old is an Option<&Value>
compute_ops(old, new) ==
    IF ~old.some THEN <<OpReplace(<<>>, new)>>
    ELSE compute_diff(<<>>, old.v, new)

\* The index an array part names: -1 for a part that does not parse
ArrayIndex(part) == ParseU64(part)

RECURSIVE GetRec(_, _)
GetRec(current, parts) ==
    IF parts = <<>> THEN Ok(current)
    ELSE LET part == Head(parts) IN
         IF IsObj(current)
         THEN IF InMap(current.m, part) THEN GetRec(current.m[part], Tail(parts))
              ELSE Err("PathNotFound")
         ELSE IF IsArr(current)
         THEN LET idx == ArrayIndex(part) IN
              IF idx < 0 THEN Err("InvalidPointer")
              ELSE IF idx >= Len(current.a) THEN Err("PathNotFound")
              ELSE GetRec(current.a[idx + 1], Tail(parts))
         ELSE Err("TypeMismatch")

get_at_pointer(data, pointer) ==
    LET Walk(parts) == IF ~parts.ok THEN parts ELSE GetRec(data, parts.val)
    IN  IF pointer = <<>> THEN Ok(data) ELSE Walk(parse_pointer(pointer))

RECURSIVE SetRec(_, _, _, _)
SetRec(current, parts, value, must_exist) ==
    LET part == Head(parts) IN
    IF Len(parts) = 1
    THEN IF IsObj(current)
         THEN IF must_exist /\ ~InMap(current.m, part) THEN Err("PathNotFound")
              ELSE Ok(JObj(MapInsert(current.m, part, value)))
         ELSE IF IsArr(current)
         THEN IF part = <<"-">> THEN Ok(JArr(Append(current.a, value)))
              ELSE LET idx == ArrayIndex(part) IN
                   IF idx < 0 THEN Err("InvalidPointer")
                   ELSE IF idx >= Len(current.a) THEN Err("PathNotFound")
                   ELSE Ok(JArr([current.a EXCEPT ![idx + 1] = value]))
         ELSE Err("TypeMismatch")
    ELSE IF IsObj(current)
         THEN LET child == IF InMap(current.m, part) THEN current.m[part]
                           ELSE JObj(EmptyMap)
                  r == SetRec(child, Tail(parts), value, must_exist)
              IN  IF r.ok THEN Ok(JObj(MapInsert(current.m, part, r.val))) ELSE r
         ELSE IF IsArr(current)
         THEN LET idx == ArrayIndex(part) IN
              IF idx < 0 THEN Err("InvalidPointer")
              ELSE IF idx >= Len(current.a) THEN Err("PathNotFound")
              ELSE LET r == SetRec(current.a[idx + 1], Tail(parts), value, must_exist)
                   IN  IF r.ok THEN Ok(JArr([current.a EXCEPT ![idx + 1] = r.val]))
                       ELSE r
         ELSE Err("TypeMismatch")

set_at_pointer(data, pointer, value, must_exist) ==
    LET Walk(parts) ==
            IF ~parts.ok THEN parts ELSE SetRec(data, parts.val, value, must_exist)
    IN  IF pointer = <<>> THEN Ok(value) ELSE Walk(parse_pointer(pointer))

RemoveAt(a, i) == SubSeq(a, 1, i - 1) \o SubSeq(a, i + 1, Len(a))

\* Ok carries the new document and the removed value
RECURSIVE RemoveRec(_, _)
RemoveRec(current, parts) ==
    LET part == Head(parts) IN
    IF Len(parts) = 1
    THEN IF IsObj(current)
         THEN IF InMap(current.m, part)
              THEN Ok([doc |-> JObj(MapRemove(current.m, part)), removed |-> current.m[part]])
              ELSE Err("PathNotFound")
         ELSE IF IsArr(current)
         THEN LET idx == ArrayIndex(part) IN
              IF idx < 0 THEN Err("InvalidPointer")
              ELSE IF idx >= Len(current.a) THEN Err("PathNotFound")
              ELSE Ok([doc |-> JArr(RemoveAt(current.a, idx + 1)),
                       removed |-> current.a[idx + 1]])
         ELSE Err("TypeMismatch")
    ELSE IF IsObj(current)
         THEN IF ~InMap(current.m, part) THEN Err("PathNotFound")
              ELSE LET r == RemoveRec(current.m[part], Tail(parts)) IN
                   IF r.ok
                   THEN Ok([doc |-> JObj(MapInsert(current.m, part, r.val.doc)),
                            removed |-> r.val.removed])
                   ELSE r
         ELSE IF IsArr(current)
         THEN LET idx == ArrayIndex(part) IN
              IF idx < 0 THEN Err("InvalidPointer")
              ELSE IF idx >= Len(current.a) THEN Err("PathNotFound")
              ELSE LET r == RemoveRec(current.a[idx + 1], Tail(parts)) IN
                   IF r.ok
                   THEN Ok([doc |-> JArr([current.a EXCEPT ![idx + 1] = r.val.doc]),
                            removed |-> r.val.removed])
                   ELSE r
         ELSE Err("TypeMismatch")

remove_at_pointer(data, pointer) ==
    LET Walk(parts) == IF ~parts.ok THEN parts ELSE RemoveRec(data, parts.val)
    IN  IF pointer = <<>> THEN Err("InvalidPointer") ELSE Walk(parse_pointer(pointer))

\* Ok carries the new document
apply_op(data, op) ==
    LET Removed(r) == IF r.ok THEN Ok(r.val.doc) ELSE r
        Moved(r) ==
            IF r.ok THEN set_at_pointer(r.val.doc, op.path, r.val.removed, FALSE) ELSE r
        Copied(r) == IF r.ok THEN set_at_pointer(data, op.path, r.val, FALSE) ELSE r
        Tested(r) ==
            IF ~r.ok THEN r
            ELSE IF r.val # op.value THEN Err("TestFailed")
            ELSE Ok(data)
    IN  IF op.op = "add" THEN set_at_pointer(data, op.path, op.value, FALSE)
        ELSE IF op.op = "remove" THEN Removed(remove_at_pointer(data, op.path))
        ELSE IF op.op = "replace" THEN set_at_pointer(data, op.path, op.value, TRUE)
        ELSE IF op.op = "move" THEN Moved(remove_at_pointer(data, op.from))
        ELSE IF op.op = "copy" THEN Copied(get_at_pointer(data, op.from))
        ELSE Tested(get_at_pointer(data, op.path))

RECURSIVE ApplyOps(_, _)
ApplyOps(data, ops) ==
    LET Rest(r) == IF r.ok THEN ApplyOps(r.val, Tail(ops)) ELSE r
    IN  IF ops = <<>> THEN Ok(data) ELSE Rest(apply_op(data, Head(ops)))

\* Variant of diff::create that records no parent
diff_create_orphan(key, old, new) ==
    [key    |-> key,
     ops    |-> compute_ops(IF old.some THEN Some(old.v.data) ELSE NoneV, new.data),
     parent |-> NoneV,
     hash   |-> compute_hash(new),
     seq    |-> IF old.some THEN old.v.version + 1 ELSE 1]

\* diff::create; old is an Option<&Scroll>.  The seq it computes is
\* overwritten by every caller in the store.
diff_create(key, old, new) ==
    [key    |-> key,
     ops    |-> compute_ops(IF old.some THEN Some(old.v.data) ELSE NoneV, new.data),
     parent |-> IF old.some THEN Some(compute_hash(old.v)) ELSE NoneV,
     hash   |-> compute_hash(new),
     seq    |-> IF old.some THEN old.v.version + 1 ELSE 1]

\* diff::apply
diff_apply(scroll, patch) ==
    LET Patched(r) ==
            IF ~r.ok THEN r
            ELSE Ok([ScrollNew(scroll.key, r.val) EXCEPT
                        !.type_ = scroll.type_, !.version = patch.seq])
    IN  Patched(ApplyOps(scroll.data, patch.ops))

-----------------------------------------------------------------------------
(* Filesystem paths (std::path) and the file backend's layout (file.rs)    *)

ScrollsDir == <<"_", "s", "c", "r", "o", "l", "l", "s">>
HistoryDir == <<"_", "h", "i", "s", "t", "o", "r", "y">>
PatchesDir == <<"p", "a", "t", "c", "h", "e", "s">>
AnchorsDir == <<"a", "n", "c", "h", "o", "r", "s">>
RootName == <<"r", "o", "o", "t">>
JsonExt == <<".", "j", "s", "o", "n">>
Dot == <<".">>
DotDot == <<".", ".">>

\* Path::components of a relative path: empty and "." components are dropped
RECURSIVE DropCurDir(_)
DropCurDir(parts) ==
    IF parts = <<>> THEN <<>>
    ELSE IF Head(parts) = <<>> \/ Head(parts) = Dot THEN DropCurDir(Tail(parts))
    ELSE <<Head(parts)>> \o DropCurDir(Tail(parts))

Components(rel) == DropCurDir(Split(rel, Slash))

\* What the operating system opens: ".." steps to the parent.  A resolved path
\* that still starts with ".." lies outside the base directory.
RECURSIVE ResolveAcc(_, _)
ResolveAcc(acc, comps) ==
    IF comps = <<>> THEN acc
    ELSE IF Head(comps) = DotDot /\ acc # <<>> /\ acc[Len(acc)] # DotDot
    THEN ResolveAcc(SubSeq(acc, 1, Len(acc) - 1), Tail(comps))
    ELSE ResolveAcc(Append(acc, Head(comps)), Tail(comps))

Resolve(comps) == ResolveAcc(<<>>, comps)

OutsideBase(fs_path) == fs_path = <<>> \/ fs_path[1] = DotDot

LastIndexOf(s, c) ==
    IF Contains(s, c) THEN CHOOSE i \in 1..Len(s) : s[i] = c /\ \A j \in (i + 1)..Len(s) : s[j] # c
    ELSE 0

\* Path::file_stem and Path::extension of a file name
file_stem(name) ==
    LET i == LastIndexOf(name, ".") IN IF i <= 1 THEN name ELSE UpTo(name, i - 1)

extension(name) ==
    LET i == LastIndexOf(name, ".") IN IF i <= 1 THEN NoneV ELSE Some(From(name, i))

JsonName == <<"j", "s", "o", "n">>

\* Convert a 9S path to a filesystem path (relative to the base directory)
scroll_path_to_fs(scroll_path) ==
    LET Joined(parts) ==
            IF parts = <<>> THEN <<ScrollsDir, RootName \o JsonExt>>
            ELSE Resolve(<<ScrollsDir>> \o SubSeq(parts, 1, Len(parts) - 1)
                         \o <<parts[Len(parts)] \o JsonExt>>)
    IN  IF scroll_path = Root THEN <<ScrollsDir, RootName \o JsonExt>>
        ELSE Joined(FilterNonEmpty(Split(scroll_path, Slash)))

\* The names in a directory (fs::read_dir): files and subdirectories
DirEntries(fs, dir) ==
    {p[Len(dir) + 1] : p \in {q \in DOMAIN fs : Len(q) > Len(dir) /\ SubSeq(q, 1, Len(dir)) = dir}}

IsFile(fs, p) == p \in DOMAIN fs

\* Path::exists, for a file or a directory
Exists(fs, p) == IsFile(fs, p) \/ DirEntries(fs, p) # {}

\* fs::create_dir_all(parent) and File::create(p) can succeed: no file stands
\* where a directory is needed and no directory where the file goes
CanCreate(fs, p) ==
    /\ \A i \in 1..(Len(p) - 1) : ~IsFile(fs, SubSeq(p, 1, i))
    /\ DirEntries(fs, p) = {}

FsPut(fs, p, content) == [q \in (DOMAIN fs) \cup {p} |-> IF q = p THEN content ELSE fs[q]]

FsRemove(fs, p) == [q \in (DOMAIN fs) \ {p} |-> fs[q]]

ScrollFile(scroll) == [kind |-> "scroll", v |-> scroll]
PatchFile(patch) == [kind |-> "patch", v |-> patch]
AnchorFile(anchor) == [kind |-> "anchor", v |-> anchor]

-----------------------------------------------------------------------------
(* FileNamespace (backends/file.rs).  Each operation maps the namespace's   *)
(* state (the files, the version cache) to the new state and the result.   *)

\* Get cached version or read from file
get_version(fs, vc, path) ==
    LET FromFile(fs_path) ==
            IF IsFile(fs, fs_path) /\ fs[fs_path].kind = "scroll" THEN fs[fs_path].v.version
            ELSE 0
    IN  IF path \in DOMAIN vc THEN vc[path] ELSE FromFile(scroll_path_to_fs(path))

\* Update version cache
set_version(vc, path, version) ==
    [q \in (DOMAIN vc) \cup {path} |-> IF q = path THEN version ELSE vc[q]]

FileNamespace_read(fs, path) ==
    LET ReadFile(fs_path) ==
            IF ~Exists(fs, fs_path) THEN Ok(NoneV)
            ELSE IF ~IsFile(fs, fs_path) THEN Err("Internal")
            ELSE IF fs[fs_path].kind # "scroll" THEN Err("InvalidData")
            ELSE Ok(Some(fs[fs_path].v))
    IN  IF ~validate_path(path) THEN Err("InvalidPath")
        ELSE ReadFile(scroll_path_to_fs(path))

\* The scroll FileNamespace::write builds for a path whose previous version is prev
VersionedScroll(path, data, prev_version) ==
    LET Hashed(scroll) == [scroll EXCEPT !.hash = Some(compute_hash(scroll))]
    IN  Hashed([ScrollNew(path, data) EXCEPT !.version = prev_version + 1])

FileNamespace_write(fs, vc, path, data) ==
    LET Stored(fs_path, prev_version, scroll) ==
            IF ~CanCreate(fs, fs_path) THEN [fs |-> fs, vc |-> vc, res |-> Err("Internal")]
            ELSE [fs  |-> FsPut(fs, fs_path, ScrollFile(scroll)),
                  vc  |-> set_version(vc, path, prev_version + 1),
                  res |-> Ok(scroll)]
        Versioned(fs_path, prev_version) ==
            Stored(fs_path, prev_version, VersionedScroll(path, data, prev_version))
    IN  IF ~validate_path(path) THEN [fs |-> fs, vc |-> vc, res |-> Err("InvalidPath")]
        ELSE Versioned(scroll_path_to_fs(path), get_version(fs, vc, path))

-----------------------------------------------------------------------------
(* Crypto at the store's boundary (vault/crypto.rs): AEAD seal and unseal   *)

\* seal: the envelope opens only under the key it was sealed with
seal(key, plaintext) == [t |-> "sealed", key |-> key, pt |-> plaintext]

unseal(key, sealed) ==
    IF sealed.t = "sealed" /\ sealed.key = key THEN Ok(sealed.pt) ELSE Err("CryptoError")

-----------------------------------------------------------------------------
(* Anchor engine (anchor.rs)                                               *)

\* anchor::create; timestamp and suffix are the clock reading and the random
\* u16 of the call.  The 8-character hash prefix of the id is modelled by the
\* whole digest.
anchor_create(scroll, label, timestamp, suffix) ==
    LET hash == compute_hash(scroll) IN
    [id        |-> hash \o <<"-">> \o DecimalDigits(timestamp) \o <<"-">> \o DecimalDigits(suffix),
     scroll    |-> scroll,
     hash      |-> hash,
     timestamp |-> timestamp,
     label     |-> label]

anchor_verify(anchor) == compute_hash(anchor.scroll) = anchor.hash

-----------------------------------------------------------------------------
(* Store (store.rs).  Operations map the store's directory and the inner    *)
(* namespace's version cache to the new ones and the result.               *)

\* The store's encryption key (Store::at always sets one)
StoreKey == "k1"

\* Get the history directory for a scroll path
history_dir_for_path(scroll_path) ==
    Resolve(<<HistoryDir>> \o Components(TrimStartMatches(scroll_path, Slash)))

PatchPath(key, seq) ==
    history_dir_for_path(key) \o <<PatchesDir, Format08(seq) \o JsonExt>>

\* Store a patch in history
store_patch(fs, patch) == FsPut(fs, PatchPath(patch.key, patch.seq), PatchFile(patch))

SetMax(S) == CHOOSE x \in S : \A y \in S : y <= x

SetMin(S) == CHOOSE x \in S : \A y \in S : x <= y

\* Get the next sequence number for a path
next_seq(fs, path) ==
    LET MaxSeq(patches_dir) ==
            IF ~Exists(fs, patches_dir) THEN 1
            ELSE SetMax({0} \cup {n \in {ParseU64(file_stem(name)) :
                                            name \in DirEntries(fs, patches_dir)} : n >= 0}) + 1
    IN  MaxSeq(Append(history_dir_for_path(path), PatchesDir))

\* <Store as Namespace>::read, Store::read_scroll
Store_read(fs, path) ==
    LET Opened(plaintext) ==
            IF ~plaintext.ok THEN Err("Internal") ELSE Ok(Some(plaintext.val))
        Unsealed(sealed) ==
            IF sealed.t # "sealed" THEN Err("Internal")
            ELSE Opened(unseal(StoreKey, sealed))
        Decrypted(sealed_opt) ==
            IF ~sealed_opt.ok THEN sealed_opt
            ELSE IF ~sealed_opt.val.some THEN Ok(NoneV)
            ELSE Unsealed(sealed_opt.val.v.data)
    IN  Decrypted(FileNamespace_read(fs, path))

\* The scroll write_scroll persists: the input with the version from next_seq
\* and its hash
StampedScroll(scroll, new_version) ==
    LET Hashed(versioned) == [versioned EXCEPT !.hash = Some(compute_hash(versioned))]
    IN  Hashed([scroll EXCEPT !.version = new_version])

\* The patch write_scroll stores: diff::create with seq overwritten
StoredPatch(key, old, versioned_scroll, new_version) ==
    [diff_create(key, old, versioned_scroll) EXCEPT !.seq = new_version]

\* <Store as Namespace>::write_scroll (the branch with an encryption key).
\* fver is the version the inner FileNamespace gave the scroll file.
Store_write_scroll(fs, vc, scroll) ==
    LET Recorded(old, new_version, versioned_scroll, w) ==
            IF ~w.res.ok THEN [fs |-> fs, vc |-> vc, res |-> w.res, fver |-> 0]
            ELSE [fs   |-> store_patch(w.fs, StoredPatch(scroll.key, old.val,
                                                         versioned_scroll, new_version)),
                  vc   |-> w.vc,
                  res  |-> Ok(versioned_scroll),
                  fver |-> w.res.val.version]
        Written(old, new_version, versioned_scroll) ==
            Recorded(old, new_version, versioned_scroll,
                     FileNamespace_write(fs, vc, scroll.key, seal(StoreKey, versioned_scroll)))
        Stamped(old, new_version) ==
            Written(old, new_version, StampedScroll(scroll, new_version))
        Sequenced(old) ==
            IF ~old.ok THEN [fs |-> fs, vc |-> vc, res |-> old, fver |-> 0]
            ELSE Stamped(old, next_seq(fs, scroll.key))
    IN  Sequenced(Store_read(fs, scroll.key))

\* Variant of write_scroll_internal that writes the data as a generic scroll
write_scroll_internal_untyped(fs, vc, scroll) ==
    Store_write_scroll(fs, vc, ScrollNew(scroll.key, scroll.data))

\* Store::write_scroll_internal: the same pipeline, used by restore
write_scroll_internal(fs, vc, scroll) == Store_write_scroll(fs, vc, scroll)

\* <Store as Namespace>::write
Store_write(fs, vc, path, data) == Store_write_scroll(fs, vc, ScrollNew(path, data))

\* patches.sort_by_key(|p| p.seq), one smallest element after the other
RECURSIVE SortBySeqFrom(_)
SortBySeqFrom(S) ==
    IF S = {} THEN <<>>
    ELSE LET x == CHOOSE y \in S : \A z \in S : y.seq <= z.seq
         IN  <<x>> \o SortBySeqFrom(S \ {x})

\* patches.sort_by_key(|p| p.seq): when no two patches share a seq, the
\* patches in the order of their seqs
SortBySeq(S) ==
    LET seqs == {x.seq : x \in S}
        Present(q) == q \in seqs
        InOrder(lo, hi) == SelectSeq([i \in 1..(hi - lo + 1) |-> lo + i - 1], Present)
        Patches(ordered) == [i \in 1..Len(ordered) |-> CHOOSE x \in S : x.seq = ordered[i]]
    IN  IF S = {} THEN <<>>
        ELSE IF Cardinality(seqs) = Cardinality(S)
        THEN Patches(InOrder(SetMin(seqs), SetMax(seqs)))
        ELSE SortBySeqFrom(S)

\* anchors.sort_by_key(|a| a.timestamp); anchors of one timestamp come in
\* directory order, which the model fixes arbitrarily
RECURSIVE SortByTimestamp(_)
SortByTimestamp(S) ==
    IF S = {} THEN <<>>
    ELSE LET x == CHOOSE y \in S : \A z \in S : y.timestamp <= z.timestamp
         IN  <<x>> \o SortByTimestamp(S \ {x})

JsonEntries(fs, dir) ==
    {name \in DirEntries(fs, dir) : extension(name) = Some(JsonName)}

\* Get the patch history for a scroll
Store_history(fs, path) ==
    LET IsPatch(f) == IsFile(fs, f) /\ fs[f].kind = "patch"
        Loaded(patches_dir, names) ==
            IF \E n \in names : ~IsPatch(Append(patches_dir, n)) THEN Err("Internal")
            ELSE Ok(SortBySeq({fs[Append(patches_dir, n)].v : n \in names}))
        Listed(history_dir, patches_dir) ==
            IF ~Exists(fs, history_dir) \/ ~Exists(fs, patches_dir) THEN Ok(<<>>)
            ELSE Loaded(patches_dir, JsonEntries(fs, patches_dir))
        InDir(history_dir) == Listed(history_dir, Append(history_dir, PatchesDir))
    IN  InDir(history_dir_for_path(path))

\* List all anchors for a scroll
Store_anchors(fs, path) ==
    LET IsAnchor(f) == IsFile(fs, f) /\ fs[f].kind = "anchor"
        Loaded(anchors_dir, names) ==
            IF \E n \in names : ~IsAnchor(Append(anchors_dir, n)) THEN Err("Internal")
            ELSE Ok(SortByTimestamp({fs[Append(anchors_dir, n)].v : n \in names}))
        Listed(anchors_dir) ==
            IF ~Exists(fs, anchors_dir) THEN Ok(<<>>)
            ELSE Loaded(anchors_dir, JsonEntries(fs, anchors_dir))
    IN  Listed(Append(history_dir_for_path(path), AnchorsDir))

\* Create an anchor (immutable checkpoint) for a scroll
Store_anchor(fs, path, label, timestamp, suffix) ==
    LET Saved(anchor) ==
            [fs  |-> FsPut(fs, history_dir_for_path(path)
                                   \o <<AnchorsDir, anchor.id \o JsonExt>>,
                           AnchorFile(anchor)),
             res |-> Ok(anchor)]
        Anchored(scroll) ==
            IF ~scroll.ok THEN [fs |-> fs, res |-> scroll]
            ELSE IF ~scroll.val.some THEN [fs |-> fs, res |-> Err("NotFound")]
            ELSE Saved(anchor_create(scroll.val.v, label, timestamp, suffix))
    IN  Anchored(Store_read(fs, path))

RECURSIVE TakeApply(_, _, _)
TakeApply(current, patches, n) ==
    LET Applied(r) ==
            IF ~r.ok THEN Err("Internal") ELSE TakeApply(r.val, Tail(patches), n - 1)
    IN  IF n = 0 \/ patches = <<>> THEN Ok(current)
        ELSE Applied(diff_apply(current, Head(patches)))

\* Variant of state_at without the range check on seq
Store_state_at_unchecked(fs, path, seq) ==
    LET Replayed(patches) ==
            IF ~patches.ok THEN patches
            ELSE IF patches.val = <<>> THEN Err("NotFound")
            ELSE TakeApply(ScrollNew(path, JObj(EmptyMap)), patches.val, seq)
    IN  Replayed(Store_history(fs, path))

\* Reconstruct the state of a scroll at a specific point in history
Store_state_at(fs, path, seq) ==
    LET Replayed(patches) ==
            IF ~patches.ok THEN patches
            ELSE IF patches.val = <<>> THEN Err("NotFound")
            ELSE IF seq = 0 \/ seq > Len(patches.val) THEN Err("Internal")
            ELSE TakeApply(ScrollNew(path, JObj(EmptyMap)), patches.val, seq)
    IN  Replayed(Store_history(fs, path))

\* Variant of restore that sends the anchored scroll through the write
\* pipeline twice
Store_restore_twice(fs, vc, path, anchor_id) ==
    LET Again(anchor, w) ==
            IF ~w.res.ok THEN w ELSE write_scroll_internal(w.fs, w.vc, anchor.scroll)
        Verified(anchor) ==
            IF ~anchor_verify(anchor)
            THEN [fs |-> fs, vc |-> vc, res |-> Err("Internal"), fver |-> 0]
            ELSE Again(anchor, write_scroll_internal(fs, vc, anchor.scroll))
        Found(anchors, found) ==
            IF found = {} THEN [fs |-> fs, vc |-> vc, res |-> Err("NotFound"), fver |-> 0]
            ELSE Verified(anchors[CHOOSE i \in found : \A j \in found : i <= j])
        Searched(anchors) ==
            IF ~anchors.ok THEN [fs |-> fs, vc |-> vc, res |-> anchors, fver |-> 0]
            ELSE Found(anchors.val,
                       {i \in 1..Len(anchors.val) : anchors.val[i].id = anchor_id})
    IN  Searched(Store_anchors(fs, path))

\* Restore a scroll to an anchored state
Store_restore(fs, vc, path, anchor_id) ==
    LET Verified(anchor) ==
            IF ~anchor_verify(anchor)
            THEN [fs |-> fs, vc |-> vc, res |-> Err("Internal"), fver |-> 0]
            ELSE write_scroll_internal(fs, vc, anchor.scroll)
        Found(anchors, found) ==
            IF found = {} THEN [fs |-> fs, vc |-> vc, res |-> Err("NotFound"), fver |-> 0]
            ELSE Verified(anchors[CHOOSE i \in found : \A j \in found : i <= j])
        Searched(anchors) ==
            IF ~anchors.ok THEN [fs |-> fs, vc |-> vc, res |-> anchors, fver |-> 0]
            ELSE Found(anchors.val,
                       {i \in 1..Len(anchors.val) : anchors.val[i].id = anchor_id})
    IN  Searched(Store_anchors(fs, path))

DefaultRetention == 100

\* u64::saturating_sub
SaturatingSub(a, b) == IF a >= b THEN a - b ELSE 0

\* Variant of auto_retention_threshold that keeps every patch
auto_retention_threshold_all(fs, path, patches) == Ok(0)

\* Get the retention threshold for auto-compaction
auto_retention_threshold(fs, path, patches) ==
    LET Threshold(anchors) ==
            IF ~anchors.ok THEN anchors
            ELSE IF anchors.val = <<>>
            THEN Ok(SaturatingSub(IF patches = <<>> THEN 0 ELSE patches[Len(patches)].seq,
                                  DefaultRetention))
            ELSE Ok(SetMin({anchors.val[i].scroll.version : i \in 1..Len(anchors.val)}))
    IN  Threshold(Store_anchors(fs, path))

\* fs::remove_file for each of the paths
RemoveAll(fs, paths) == [q \in (DOMAIN fs) \ paths |-> fs[q]]

\* Compact history by removing old patches; keep_since_seq is an Option<u64>
Store_compact(fs, path, keep_since_seq) ==
    LET Removed(present) ==
            [fs |-> RemoveAll(fs, present), res |-> Ok(Cardinality(present))]
        Doomed(patches, threshold) ==
            {PatchPath(path, patches[i].seq) :
                i \in {j \in 1..Len(patches) : patches[j].seq < threshold}}
        Cut(patches, threshold) ==
            IF ~threshold.ok THEN [fs |-> fs, res |-> threshold]
            ELSE Removed({f \in Doomed(patches, threshold.val) : Exists(fs, f)})
        Pruned(patches) ==
            IF ~patches.ok THEN [fs |-> fs, res |-> patches]
            ELSE IF patches.val = <<>> THEN [fs |-> fs, res |-> Ok(0)]
            ELSE Cut(patches.val,
                     IF keep_since_seq.some THEN Ok(keep_since_seq.v)
                     ELSE auto_retention_threshold(fs, path, patches.val))
    IN  Pruned(Store_history(fs, path))

\* Delete a scroll at the given path
Store_delete(fs, path) ==
    LET Unlinked(file_path) ==
            IF Exists(fs, file_path) /\ IsFile(fs, file_path)
            THEN [fs |-> FsRemove(fs, file_path), res |-> Ok(TRUE)]
            ELSE IF Exists(fs, file_path) THEN [fs |-> fs, res |-> Err("Internal")]
            ELSE [fs |-> fs, res |-> Ok(TRUE)]
    IN  Unlinked(Resolve(<<ScrollsDir>>
                         \o Components(TrimStartMatches(path, Slash) \o JsonExt)))

-----------------------------------------------------------------------------
(* The store as a state machine: one client calling the Store's operations  *)
(* one after the other, and reopening it.                                   *)

MaxOps == 4
MaxStamp == 1
MaxStateAt == 3

KeyA == <<"/", "a">>
KeyB == <<"/", "a", "/", "b">>
StoreKeys == {KeyA, KeyB}

D1 == JObj(MapInsert(EmptyMap, <<"a">>, JNum(1)))
D2 == JObj(MapInsert(MapInsert(EmptyMap, <<"a">>, JObj(MapInsert(EmptyMap, <<"/">>, JNum(1)))),
                     <<"~">>, JArr(<<JNum(1)>>)))
D3 == JObj(MapInsert(EmptyMap, <<"a">>,
                     JObj(MapInsert(MapInsert(EmptyMap, <<"/">>, JNum(2)), <<"b">>, JNum(1)))))
WriteData == {D1, D2}
NoteType == "note@v1"
KeepSince == {NoneV, Some(2)}
BogusAnchorId == <<"n", "o", "n", "e">>

\* what a successful store write persisted: the patch on disk after the
\* write, the version the file backend gave the scroll file, and the content
WriteEvent(fs, r) ==
    LET Event(patch) ==
            [e      |-> "write",
             seq    |-> patch.seq,
             fver   |-> r.fver,
             parent |-> patch.parent,
             hash   |-> patch.hash,
             data   |-> r.res.val.data,
             type_  |-> r.res.val.type_]
    IN  Event(fs[PatchPath(r.res.val.key, r.res.val.version)].v)

Logged(log, k, r) ==
    IF r.res.ok THEN [log EXCEPT ![k] = Append(@, WriteEvent(r.fs, r))] ELSE log

\* The store uses neither the memory namespaces, the kernel nor threads
storeUnused == <<mem, mounts, threads, watchVars, vaultVars>>

StoreInit ==
    /\ files = <<>>
    /\ versions = <<>>
    /\ mem = <<>>
    /\ mounts = <<>>
    /\ threads = <<>>
    /\ anchorLog = {}
    /\ writeLog = [k \in StoreKeys |-> <<>>]
    /\ ret = [op |-> "open"]
    /\ budget = MaxOps
    /\ NoWatch
    /\ NoVault

\* store.write(path, data)
Write(k, d) ==
    /\ budget > 0
    /\ \E r \in {Store_write(files, versions, k, d)} :
          /\ files' = r.fs
          /\ versions' = r.vc
          /\ writeLog' = Logged(writeLog, k, r)
          /\ ret' = [op |-> "write", key |-> k, res |-> r.res]
    /\ budget' = budget - 1
    /\ UNCHANGED anchorLog
    /\ UNCHANGED storeUnused

\* store.write_scroll(scroll) with a typed scroll
WriteScroll(k, d) ==
    /\ budget > 0
    /\ \E r \in {Store_write_scroll(files, versions, ScrollTyped(k, d, NoteType))} :
          /\ files' = r.fs
          /\ versions' = r.vc
          /\ writeLog' = Logged(writeLog, k, r)
          /\ ret' = [op |-> "write_scroll", key |-> k, res |-> r.res]
    /\ budget' = budget - 1
    /\ UNCHANGED anchorLog
    /\ UNCHANGED storeUnused

\* The seq of the last write to k, 0 when k was never written
LastSeq(log, k) ==
    LET Writes(events) == IF events = <<>> THEN 0 ELSE events[Len(events)].seq
        IsWriteEvent(ev) == ev.e = "write"
    IN  Writes(SelectSeq(log[k], IsWriteEvent))

\* store.anchor(path, label); anchorLog keeps, for each anchor on disk, the
\* state anchored and the seq of the write that produced it
Anchor(k, timestamp) ==
    /\ budget > 0
    /\ \E r \in {Store_anchor(files, k, NoneV, timestamp, 0)} :
          /\ files' = r.fs
          /\ anchorLog' = IF r.res.ok
                          THEN {a \in anchorLog : a.key # k \/ a.id # r.res.val.id}
                               \cup {[key   |-> k,
                                      id    |-> r.res.val.id,
                                      data  |-> r.res.val.scroll.data,
                                      type_ |-> r.res.val.scroll.type_,
                                      seq   |-> LastSeq(writeLog, k)]}
                          ELSE anchorLog
          /\ ret' = [op |-> "anchor", key |-> k, res |-> r.res]
    /\ budget' = budget - 1
    /\ UNCHANGED <<versions, writeLog>>
    /\ UNCHANGED storeUnused

\* store.restore(path, anchor_id)
Restore(k, id) ==
    /\ budget > 0
    /\ \E r \in {Store_restore(files, versions, k, id)} :
          /\ files' = r.fs
          /\ versions' = r.vc
          /\ writeLog' = Logged(writeLog, k, r)
          /\ ret' = [op |-> "restore", key |-> k, id |-> id, res |-> r.res]
    /\ budget' = budget - 1
    /\ UNCHANGED anchorLog
    /\ UNCHANGED storeUnused

\* store.delete(path)
Delete(k) ==
    /\ budget > 0
    /\ \E r \in {Store_delete(files, k)} :
          /\ files' = r.fs
          /\ writeLog' = IF r.res.ok /\ r.fs # files
                         THEN [writeLog EXCEPT ![k] = Append(@, [e |-> "delete"])]
                         ELSE writeLog
          /\ ret' = [op |-> "delete", key |-> k, res |-> r.res]
    /\ budget' = budget - 1
    /\ UNCHANGED <<versions, anchorLog>>
    /\ UNCHANGED storeUnused

\* store.compact(path, keep_since_seq)
Compact(k, keep_since_seq) ==
    /\ budget > 0
    /\ \E r \in {Store_compact(files, k, keep_since_seq)} :
          /\ files' = r.fs
          /\ writeLog' = IF r.res.ok /\ r.res.val > 0
                         THEN [writeLog EXCEPT ![k] = Append(@, [e |-> "compact"])]
                         ELSE writeLog
          /\ ret' = [op |-> "compact", key |-> k, keep |-> keep_since_seq, res |-> r.res]
    /\ budget' = budget - 1
    /\ UNCHANGED <<versions, anchorLog>>
    /\ UNCHANGED storeUnused

\* store.state_at(path, seq); cur is the current state before the call
StateAt(k, seq) ==
    /\ budget > 0
    /\ ret' = [op  |-> "state_at", key |-> k, seq |-> seq,
               res |-> Store_state_at(files, k, seq),
               cur |-> Store_read(files, k)]
    /\ budget' = budget - 1
    /\ UNCHANGED <<files, versions, anchorLog, writeLog>>
    /\ UNCHANGED storeUnused

\* store.read(path)
Read(k) ==
    /\ budget > 0
    /\ ret' = [op |-> "read", key |-> k, res |-> Store_read(files, k)]
    /\ budget' = budget - 1
    /\ UNCHANGED <<files, versions, anchorLog, writeLog>>
    /\ UNCHANGED storeUnused

\* The store is dropped and opened again on the same directory (Store::at):
\* the inner FileNamespace starts with an empty version cache
Reopen ==
    /\ budget > 0
    /\ versions' = <<>>
    /\ ret' = [op |-> "open"]
    /\ budget' = budget - 1
    /\ UNCHANGED <<files, anchorLog, writeLog>>
    /\ UNCHANGED storeUnused

AnchorIds == {a.id : a \in anchorLog} \cup {BogusAnchorId}

Next ==
    \/ \E k \in StoreKeys, d \in WriteData : Write(k, d)
    \/ \E k \in StoreKeys : WriteScroll(k, D3)
    \/ \E k \in StoreKeys, timestamp \in 0..MaxStamp : Anchor(k, timestamp)
    \/ \E k \in StoreKeys, id \in AnchorIds : Restore(k, id)
    \/ \E k \in StoreKeys : Delete(k)
    \/ \E k \in StoreKeys, keep \in KeepSince : Compact(k, keep)
    \/ \E k \in StoreKeys, seq \in 0..MaxStateAt : StateAt(k, seq)
    \/ \E k \in StoreKeys : Read(k)
    \/ Reopen

Spec == StoreInit /\ [][Next]_vars

-----------------------------------------------------------------------------
(* Properties of the store                                                  *)

IsWrite(ev) == ev.e = "write"
WritesOf(k) == SelectSeq(writeLog[k], IsWrite)
Compacted(k) == \E i \in 1..Len(writeLog[k]) : writeLog[k][i].e = "compact"

\* C1: for every key, across write, write_scroll, restore, compact, delete and
\* reopening, each newly persisted patch has a seq strictly greater than the
\* seq of every patch persisted earlier for that key.
C1_SeqAlwaysGrows ==
    \A k \in StoreKeys :
        LET W == WritesOf(k) IN
        \A i, j \in 1..Len(W) : i < j => W[i].seq < W[j].seq

\* C2: for every key, successive store writes produce patches with strictly
\* increasing seq, each patch's parent is the hash field of the previous
\* patch, and the genesis patch has no parent.
C2_HashChain ==
    \A k \in StoreKeys :
        LET L == writeLog[k] IN
        /\ L # <<>> => IsWrite(L[1]) /\ L[1].parent = NoneV
        /\ \A i \in 1..(Len(L) - 1) :
              IsWrite(L[i]) /\ IsWrite(L[i + 1])
                  => /\ L[i].seq < L[i + 1].seq
                     /\ L[i + 1].parent = Some(L[i].hash)

\* three successive writes of one key, each changing the content
C2_Witness ==
    \E k \in StoreKeys :
        LET L == writeLog[k] IN
        /\ Len(L) >= 3
        /\ \A i \in 1..3 : IsWrite(L[i])
        /\ L[1].hash # L[2].hash /\ L[2].hash # L[3].hash
        /\ L[3].parent = Some(L[2].hash)

\* C4: in every reachable state of the store, also after delete, compact and
\* reopening, the seq of each persisted patch equals the version the file
\* backend assigned to the scroll in the same write.
C4_SeqIsFileVersion ==
    \A k \in StoreKeys :
        LET W == WritesOf(k) IN
        \A i \in 1..Len(W) : W[i].seq = W[i].fver

C6_AnchorRoundTrip ==
    ret.op = "restore" =>
        \A a \in anchorLog :
            a.key = ret.key /\ a.id = ret.id =>
                /\ ret.res.ok
                /\ LET r == Store_read(files, ret.key) IN
                   /\ r.ok /\ r.val.some
                   /\ r.val.v.data = a.data
                   /\ r.val.v.type_ = a.type_

\* a typed scroll was anchored, overwritten with other content of another
\* type, and restored
C6_Witness ==
    /\ ret.op = "restore"
    /\ ret.res.ok
    /\ LET W == WritesOf(ret.key) IN
       /\ Len(W) >= 3
       /\ W[Len(W)].type_ = NoteType
       /\ W[Len(W) - 1].type_ = GenericType
       /\ W[Len(W) - 1].data # W[Len(W)].data
    /\ \E a \in anchorLog : a.key = ret.key /\ a.id = ret.id

-----------------------------------------------------------------------------
(* The file namespace on its own: one client reading and writing paths,     *)
(* well-formed and not.                                                     *)

MaxPathOps == 2
MaxSegs == 3

Segs == {<<"a">>, <<".">>, <<".", ".">>, <<".", "a">>, <<>>}

\* every path of up to MaxSegs segments, with and without the leading slash
PathInputs ==
    {<<>>} \cup UNION {UNION {{Root \o Join(f, Root), Join(f, Root)} : f \in [1..n -> Segs]} :
                         n \in 1..MaxSegs}

HasTraversalSegment(path) ==
    LET segs == Split(path, Slash) IN \E i \in 1..Len(segs) : IsTraversalSegment(segs[i])

PathInit ==
    /\ files = <<>>
    /\ versions = <<>>
    /\ mem = <<>>
    /\ mounts = <<>>
    /\ threads = <<>>
    /\ anchorLog = {}
    /\ writeLog = <<>>
    /\ ret = [op |-> "open"]
    /\ budget = MaxPathOps
    /\ NoWatch
    /\ NoVault

\* FileNamespace::write(path, data)
FileWrite(path, data) ==
    /\ budget > 0
    /\ LET r == FileNamespace_write(files, versions, path, data) IN
       /\ files' = r.fs
       /\ versions' = r.vc
       /\ ret' = [op |-> "file_write", path |-> path, res |-> r.res]
    /\ budget' = budget - 1
    /\ UNCHANGED <<mem, mounts, threads, anchorLog, writeLog>>
    /\ UNCHANGED <<watchVars, vaultVars>>

\* FileNamespace::read(path)
FileRead(path) ==
    /\ budget > 0
    /\ ret' = [op |-> "file_read", path |-> path, res |-> FileNamespace_read(files, path)]
    /\ budget' = budget - 1
    /\ UNCHANGED <<files, versions, mem, mounts, threads, anchorLog, writeLog>>
    /\ UNCHANGED <<watchVars, vaultVars>>

PathNext ==
    \/ \E path \in PathInputs : FileWrite(path, D1)
    \/ \E path \in PathInputs : FileRead(path)

PathSpec == PathInit /\ [][PathNext]_vars

\* C8: for every path with a "." or ".." segment the file backend's write and
\* read fail with InvalidPath, and no file is created outside the backend's
\* storage (every file lies under _scrolls in the base directory).
C8_TraversalRejected ==
    /\ ret.op \in {"file_write", "file_read"} /\ HasTraversalSegment(ret.path)
          => ret.res = Err("InvalidPath")
    /\ \A f \in DOMAIN files : ~OutsideBase(f) /\ f[1] = ScrollsDir

\* after a scroll was written, a write whose path would leave the base
\* directory was refused
C8_Witness ==
    /\ ret.op = "file_write"
    /\ HasTraversalSegment(ret.path)
    /\ OutsideBase(scroll_path_to_fs(ret.path))
    /\ ret.res = Err("InvalidPath")
    /\ files # <<>>

-----------------------------------------------------------------------------
(* MemoryNamespace (backends/memory.rs): store is a map from path to scroll *)

MemoryNamespace_read(store, path) ==
    IF ~validate_path(path) THEN Err("InvalidPath")
    ELSE IF InMap(store, path) THEN Ok(Some(store[path])) ELSE Ok(NoneV)

\* write holds the store's write lock from the version lookup to the insert
MemoryNamespace_write(store, path, data) ==
    IF ~validate_path(path) THEN [store |-> store, res |-> Err("InvalidPath")]
    ELSE LET prev_version == IF InMap(store, path) THEN store[path].version ELSE 0
             scroll == VersionedScroll(path, data, prev_version)
         IN  [store |-> MapInsert(store, path, scroll), res |-> Ok(scroll)]

MemoryNamespace_list(store, prefix) ==
    IF ~validate_path(prefix) THEN Err("InvalidPath")
    ELSE Ok({k \in DOMAIN store : is_path_under_prefix(k, prefix)})

-----------------------------------------------------------------------------
(* Kernel (kernel.rs): the mount table maps mount paths to namespaces       *)

\* Variant of is_path_under_mount that matches on any string prefix
is_path_under_mount_prefix(path, mount_path) ==
    IF mount_path = Root THEN StartsWith(path, Root) ELSE StartsWith(path, mount_path)

\* Check if a path is under a mount point with proper segment boundary
is_path_under_mount(path, mount_path) ==
    IF mount_path = Root THEN StartsWith(path, Root)
    ELSE IF path = mount_path THEN TRUE
    ELSE IF StartsWith(path, mount_path) THEN StartsWith(From(path, Len(mount_path)), Root)
    ELSE FALSE

RECURSIVE PopTrailingSlashes(_)
PopTrailingSlashes(normalized) ==
    IF Len(normalized) > 1 /\ EndsWith(normalized, Root)
    THEN PopTrailingSlashes(UpTo(normalized, Len(normalized) - 1))
    ELSE normalized

\* Normalize a mount path for storage
normalize_mount_path(path) ==
    PopTrailingSlashes(IF ~StartsWith(path, Root) THEN Root \o path ELSE path)

\* Kernel::mount
Kernel_mount(mt, path, ns) == MapInsert(mt, normalize_mount_path(path), ns)

\* Kernel::unmount
Kernel_unmount(mt, path) == MapRemove(mt, path)

\* Kernel::resolve: the namespace and the translated path
Kernel_resolve(mt, path) ==
    LET matching == {m \in DOMAIN mt : is_path_under_mount(path, m)} IN
    IF matching = {} THEN Err("NotFound")
    ELSE LET mount_path == CHOOSE m \in matching : \A o \in matching : Len(o) <= Len(m)
             stripped == IF mount_path = Root THEN path
                         ELSE IF path = mount_path THEN Root
                         ELSE From(path, Len(mount_path))
         IN  Ok([ns |-> mt[mount_path], stripped |-> stripped])

\* <Kernel as Namespace>::read
Kernel_read(mt, m, path) ==
    LET r == Kernel_resolve(mt, path) IN
    IF ~r.ok THEN r
    ELSE LET scroll == MemoryNamespace_read(m[r.val.ns], r.val.stripped) IN
         IF ~scroll.ok THEN scroll
         ELSE IF scroll.val.some THEN Ok(Some([scroll.val.v EXCEPT !.key = path]))
         ELSE Ok(NoneV)

\* <Kernel as Namespace>::write
Kernel_write(mt, m, path, data) ==
    LET r == Kernel_resolve(mt, path) IN
    IF ~r.ok THEN [mem |-> m, res |-> r]
    ELSE LET w == MemoryNamespace_write(m[r.val.ns], r.val.stripped, data) IN
         IF ~w.res.ok THEN [mem |-> m, res |-> w.res]
         ELSE [mem |-> [m EXCEPT ![r.val.ns] = w.store],
               res |-> Ok([w.res.val EXCEPT !.key = path])]

\* <Kernel as Namespace>::list
Kernel_list(mt, m, prefix) ==
    LET r == Kernel_resolve(mt, prefix) IN
    IF ~r.ok THEN r
    ELSE LET paths == MemoryNamespace_list(m[r.val.ns], r.val.stripped)
             stripped_len == Len(r.val.stripped)
             mount_prefix == IF prefix = Root THEN <<>>
                             ELSE IF Len(prefix) >= stripped_len
                             THEN UpTo(prefix, Len(prefix) - stripped_len)
                             ELSE <<>>
         IN  IF ~paths.ok THEN paths
             ELSE Ok({IF mount_prefix = <<>> THEN q
                      ELSE IF q = Root THEN mount_prefix
                      ELSE mount_prefix \o q : q \in paths.val})

-----------------------------------------------------------------------------
(* The kernel as a state machine: one client mounting two memory            *)
(* namespaces and reading, writing and listing through the kernel.          *)

MaxKernelOps == 4

Wallet == <<"/", "w", "a", "l", "l", "e", "t">>
WalletBak == Wallet \o <<"b", "a", "k">>
Balance == <<"/", "b", "a", "l", "a", "n", "c", "e">>
Other == <<"/", "x">>

Namespaces == {"A", "B"}
MountInputs == {Wallet, WalletBak \o Root, Root}
UnmountInputs == {Wallet, WalletBak}
KernelPaths == {Wallet \o Balance, WalletBak \o Balance, Wallet, Other}
ListPrefixes == {Root, Wallet, WalletBak, Wallet \o Balance}
Hundred == JNum(100)

KernelInit ==
    /\ files = <<>>
    /\ versions = <<>>
    /\ mem = [ns \in Namespaces |-> <<>>]
    /\ mounts = <<>>
    /\ threads = <<>>
    /\ anchorLog = {}
    /\ writeLog = <<>>
    /\ ret = [op |-> "new"]
    /\ budget = MaxKernelOps
    /\ NoWatch
    /\ NoVault

kernelUnused == <<files, versions, threads, anchorLog, writeLog, watchVars, vaultVars>>

\* kernel.mount(path, ns)
Mount(path, ns) ==
    /\ budget > 0
    /\ mounts' = Kernel_mount(mounts, path, ns)
    /\ ret' = [op |-> "mount", path |-> path]
    /\ budget' = budget - 1
    /\ UNCHANGED mem
    /\ UNCHANGED kernelUnused

\* kernel.unmount(path)
Unmount(path) ==
    /\ budget > 0
    /\ mounts' = Kernel_unmount(mounts, path)
    /\ ret' = [op |-> "unmount", path |-> path]
    /\ budget' = budget - 1
    /\ UNCHANGED mem
    /\ UNCHANGED kernelUnused

\* kernel.write(path, data); before is the namespaces' content before the call
KernelWrite(path, data) ==
    /\ budget > 0
    /\ LET r == Kernel_write(mounts, mem, path, data) IN
       /\ mem' = r.mem
       /\ ret' = [op |-> "kernel_write", path |-> path, data |-> data, res |-> r.res,
                  before |-> mem]
    /\ budget' = budget - 1
    /\ UNCHANGED mounts
    /\ UNCHANGED kernelUnused

\* kernel.read(path)
KernelRead(path) ==
    /\ budget > 0
    /\ ret' = [op |-> "kernel_read", path |-> path, res |-> Kernel_read(mounts, mem, path)]
    /\ budget' = budget - 1
    /\ UNCHANGED <<mounts, mem>>
    /\ UNCHANGED kernelUnused

\* kernel.list(prefix)
KernelList(prefix) ==
    /\ budget > 0
    /\ ret' = [op |-> "kernel_list", path |-> prefix, res |-> Kernel_list(mounts, mem, prefix)]
    /\ budget' = budget - 1
    /\ UNCHANGED <<mounts, mem>>
    /\ UNCHANGED kernelUnused

KernelNext ==
    \/ \E path \in MountInputs, ns \in Namespaces : Mount(path, ns)
    \/ \E path \in UnmountInputs : Unmount(path)
    \/ \E path \in KernelPaths : KernelWrite(path, Hundred)
    \/ \E path \in KernelPaths : KernelRead(path)
    \/ \E prefix \in ListPrefixes : KernelList(prefix)

KernelSpec == KernelInit /\ [][KernelNext]_vars

\* The mounts a path lies under: the root mount, the path itself, or a mount
\* followed in the path by a slash
MountsOver(path) ==
    {m \in DOMAIN mounts :
        \/ m = Root /\ StartsWith(path, Root)
        \/ path = m
        \/ StartsWith(path, m \o Root)}

LongestMountOver(path) ==
    CHOOSE m \in MountsOver(path) : \A o \in MountsOver(path) : Len(o) <= Len(m)

BackendKey(path, m) ==
    IF m = Root THEN path ELSE IF path = m THEN Root ELSE From(path, Len(m))

KernelKey(m, key) ==
    IF m = Root THEN key ELSE IF key = Root THEN m ELSE m \o key

\* C9: the kernel sends a path to the longest mount that is a prefix of it on
\* a segment boundary: a write changes that mount's namespace only, a read
\* answers from it, and a path under no mount is NotFound.  With /wallet on A
\* and /walletbak on B, write("/wallet/balance", 100) reaches A only and
\* read("/walletbak/balance") is None.
C9_LongestMount ==
    /\ ret.op = "kernel_write" =>
          IF MountsOver(ret.path) = {} THEN ret.res = Err("NotFound") /\ mem = ret.before
          ELSE LET ns  == mounts[LongestMountOver(ret.path)]
                   key == BackendKey(ret.path, LongestMountOver(ret.path))
               IN  /\ ret.res.ok
                   /\ InMap(mem[ns], key) /\ mem[ns][key].data = ret.data
                   /\ \A o \in Namespaces \ {ns} : mem[o] = ret.before[o]
                   /\ \A k \in DOMAIN mem[ns] \ {key} :
                         InMap(ret.before[ns], k) /\ mem[ns][k] = ret.before[ns][k]
    /\ ret.op = "kernel_read" =>
          IF MountsOver(ret.path) = {} THEN ret.res = Err("NotFound")
          ELSE LET ns  == mounts[LongestMountOver(ret.path)]
                   key == BackendKey(ret.path, LongestMountOver(ret.path))
               IN  ret.res = IF InMap(mem[ns], key)
                             THEN Ok(Some([mem[ns][key] EXCEPT !.key = ret.path]))
                             ELSE Ok(NoneV)

\* /wallet is mounted on A and /walletbak on B, /wallet/balance was written
\* and is in A alone, and the read of /walletbak/balance has returned None
C9_Witness ==
    /\ DOMAIN mounts = {Wallet, WalletBak}
    /\ mounts[Wallet] = "A" /\ mounts[WalletBak] = "B"
    /\ InMap(mem["A"], Balance) /\ mem["A"][Balance].data = Hundred
    /\ mem["B"] = <<>>
    /\ ret.op = "kernel_read"
    /\ ret.path = WalletBak \o Balance
    /\ ret.res = Ok(NoneV)

\* C10: every key returned by kernel.list(prefix) is a full kernel path (mount
\* path followed by the backend key), lies under prefix, and kernel.read of
\* it returns the scroll -- also when prefix is the mount path itself.
C10_ListFullPaths ==
    ret.op = "kernel_list" /\ ret.res.ok =>
        \A key \in ret.res.val :
            /\ is_path_under_prefix(key, ret.path)
            /\ \E m \in DOMAIN mounts : \E k \in DOMAIN mem[mounts[m]] : key = KernelKey(m, k)
            /\ LET r == Kernel_read(mounts, mem, key) IN r.ok /\ r.val.some

-----------------------------------------------------------------------------
(* The backends under concurrent writers: threads writing one file          *)
(* namespace and one memory namespace, and the file namespace reopened.     *)
(* FileNamespace::write takes no lock across its steps: it looks the        *)
(* version up, writes the file, then stores the version in the cache.       *)

MaxBackendOps == 4

Threads == {1, 2}
BackendPaths == {KeyA, KeyB}
Idle == [pc |-> "idle"]
\* the paths the writers use: the two keys and a path without leading slash
BackendInputs == BackendPaths \cup {<<"a">>}
LogKeys == {<<b, path>> : b \in {"file", "memory"}, path \in BackendPaths}

BackendInit ==
    /\ files = <<>>
    /\ versions = <<>>
    /\ mem = [ns \in {"M"} |-> <<>>]
    /\ mounts = <<>>
    /\ threads = [t \in Threads |-> Idle]
    /\ anchorLog = {}
    /\ writeLog = [k \in LogKeys |-> <<>>]
    /\ ret = [op |-> "open"]
    /\ budget = MaxBackendOps
    /\ NoWatch
    /\ NoVault

\* FileNamespace::write up to the version lookup
FileWriteBegin(t, path, data) ==
    /\ budget > 0
    /\ threads[t] = Idle
    /\ budget' = budget - 1
    /\ IF validate_path(path) /\ CanCreate(files, scroll_path_to_fs(path))
       THEN /\ threads' = [threads EXCEPT ![t] =
                              [pc |-> "create", path |-> path, data |-> data,
                               prev_version |-> get_version(files, versions, path)]]
            /\ UNCHANGED ret
       ELSE /\ ret' = [op |-> "file_write", path |-> path,
                       res |-> FileNamespace_write(files, versions, path, data).res]
            /\ UNCHANGED threads
    /\ UNCHANGED <<files, versions, mem, mounts, anchorLog, writeLog>>
    /\ UNCHANGED <<watchVars, vaultVars>>

\* File::create and the serialisation of the scroll
FileWriteCreate(t) ==
    /\ threads[t].pc = "create"
    /\ LET scroll == VersionedScroll(threads[t].path, threads[t].data, threads[t].prev_version) IN
       /\ files' = FsPut(files, scroll_path_to_fs(threads[t].path), ScrollFile(scroll))
       /\ threads' = [threads EXCEPT ![t] =
                         [pc |-> "set_version", path |-> threads[t].path, scroll |-> scroll,
                          prev_version |-> threads[t].prev_version]]
    /\ UNCHANGED <<versions, mem, mounts, anchorLog, writeLog, ret, budget>>
    /\ UNCHANGED <<watchVars, vaultVars>>

\* set_version and the return of the scroll
FileWriteEnd(t) ==
    /\ threads[t].pc = "set_version"
    /\ versions' = set_version(versions, threads[t].path, threads[t].prev_version + 1)
    /\ writeLog' = [writeLog EXCEPT ![<<"file", threads[t].path>>] =
                       Append(@, threads[t].scroll.version)]
    /\ ret' = [op |-> "file_write", path |-> threads[t].path, res |-> Ok(threads[t].scroll)]
    /\ threads' = [threads EXCEPT ![t] = Idle]
    /\ UNCHANGED <<files, mem, mounts, anchorLog, budget>>
    /\ UNCHANGED <<watchVars, vaultVars>>

\* MemoryNamespace::write, under the store's write lock
MemoryWrite(t, path, data) ==
    /\ budget > 0
    /\ threads[t] = Idle
    /\ LET w == MemoryNamespace_write(mem["M"], path, data) IN
       /\ mem' = [mem EXCEPT !["M"] = w.store]
       /\ writeLog' = IF w.res.ok
                      THEN [writeLog EXCEPT ![<<"memory", path>>] = Append(@, w.res.val.version)]
                      ELSE writeLog
       /\ ret' = [op |-> "memory_write", path |-> path, res |-> w.res]
    /\ budget' = budget - 1
    /\ UNCHANGED <<files, versions, mounts, threads, anchorLog>>
    /\ UNCHANGED <<watchVars, vaultVars>>

\* The file namespace is dropped and FileNamespace::new opens the directory
\* again: the version cache starts empty
BackendReopen ==
    /\ budget > 0
    /\ \A t \in Threads : threads[t] = Idle
    /\ versions # <<>>
    /\ versions' = <<>>
    /\ ret' = [op |-> "open"]
    /\ budget' = budget - 1
    /\ UNCHANGED <<files, mem, mounts, threads, anchorLog, writeLog>>
    /\ UNCHANGED <<watchVars, vaultVars>>

BackendNext ==
    \/ \E t \in Threads, path \in BackendInputs, data \in WriteData : FileWriteBegin(t, path, data)
    \/ \E t \in Threads : FileWriteCreate(t)
    \/ \E t \in Threads : FileWriteEnd(t)
    \/ \E t \in Threads, path \in BackendInputs, data \in WriteData : MemoryWrite(t, path, data)
    \/ BackendReopen

BackendSpec == BackendInit /\ [][BackendNext]_vars

AllIdle == \A t \in Threads : threads[t] = Idle

BackendRead(b, path) ==
    IF b = "file" THEN FileNamespace_read(files, path) ELSE MemoryNamespace_read(mem["M"], path)

\* C7: in the memory and the file backend every successful write of a key
\* returns a version one above that of the previous successful write of the
\* key, 1 for the first, and a following read shows it -- with concurrent
\* writers and, for the file backend, across reopening.  So no two writes of
\* a key return the same version, and once all n writes have returned the
\* versions returned are 1..n and a read shows version n.
C7_VersionsCount ==
    \A k \in LogKeys :
        LET L == writeLog[k] IN
        /\ \A i, j \in 1..Len(L) : i # j => L[i] # L[j]
        /\ AllIdle /\ L # <<>> =>
              /\ {L[i] : i \in 1..Len(L)} = 1..Len(L)
              /\ LET r == BackendRead(k[1], k[2]) IN
                 r.ok /\ r.val.some /\ r.val.v.version = Len(L)

\* The part of C7 that holds: the versions of the memory backend, whose write
\* holds the lock from the version lookup to the insert
MemoryVersionsCount ==
    \A path \in BackendPaths :
        LET L == writeLog[<<"memory", path>>] IN
        /\ \A i \in 1..Len(L) : L[i] = i
        /\ L # <<>> => MemoryNamespace_read(mem["M"], path).val.v.version = Len(L)

-----------------------------------------------------------------------------
(* The store under concurrent writers: threads of one process calling       *)
(* write on one Store.  Store::write_scroll takes no lock: it reads the     *)
(* old scroll and scans for the next seq, writes the sealed scroll through  *)
(* the inner namespace, then stores the patch.                              *)

MaxConcurrentWrites == 3

ConcurrentInit ==
    /\ files = <<>>
    /\ versions = <<>>
    /\ mem = <<>>
    /\ mounts = <<>>
    /\ threads = [t \in Threads |-> Idle]
    /\ anchorLog = {}
    /\ writeLog = [k \in StoreKeys |-> <<>>]
    /\ ret = [op |-> "open"]
    /\ budget = MaxConcurrentWrites
    /\ NoWatch
    /\ NoVault

\* write_scroll up to next_seq: self.read(key), then the scan of the patches
StoreWriteBegin(t, k, d) ==
    /\ budget > 0
    /\ threads[t] = Idle
    /\ budget' = budget - 1
    /\ LET old == Store_read(files, k) IN
       IF old.ok
       THEN /\ threads' = [threads EXCEPT ![t] =
                              [pc |-> "inner_write", old |-> old.val,
                               new_version |-> next_seq(files, k),
                               scroll |-> StampedScroll(ScrollNew(k, d), next_seq(files, k))]]
            /\ UNCHANGED ret
       ELSE /\ ret' = [op |-> "write", key |-> k, res |-> old]
            /\ UNCHANGED threads
    /\ UNCHANGED <<files, versions, mem, mounts, anchorLog, writeLog>>
    /\ UNCHANGED <<watchVars, vaultVars>>

\* self.inner.write(key, sealed)
StoreWriteInner(t) ==
    /\ threads[t].pc = "inner_write"
    /\ LET w == FileNamespace_write(files, versions, threads[t].scroll.key,
                                    seal(StoreKey, threads[t].scroll)) IN
       /\ files' = w.fs
       /\ versions' = w.vc
       /\ IF w.res.ok
          THEN /\ threads' = [threads EXCEPT ![t].pc = "store_patch"]
               /\ UNCHANGED ret
          ELSE /\ threads' = [threads EXCEPT ![t] = Idle]
               /\ ret' = [op |-> "write", key |-> threads[t].scroll.key, res |-> w.res]
    /\ UNCHANGED <<mem, mounts, anchorLog, writeLog, budget>>
    /\ UNCHANGED <<watchVars, vaultVars>>

\* diff::create, store_patch and the return of the scroll
StoreWritePatch(t) ==
    /\ threads[t].pc = "store_patch"
    /\ LET key == threads[t].scroll.key
           patch == StoredPatch(key, threads[t].old, threads[t].scroll, threads[t].new_version)
       IN  /\ files' = store_patch(files, patch)
           /\ writeLog' = [writeLog EXCEPT ![key] = Append(@, [e |-> "write", seq |-> patch.seq])]
           /\ ret' = [op |-> "write", key |-> key, res |-> Ok(threads[t].scroll)]
    /\ threads' = [threads EXCEPT ![t] = Idle]
    /\ UNCHANGED <<versions, mem, mounts, anchorLog, budget>>
    /\ UNCHANGED <<watchVars, vaultVars>>

ConcurrentNext ==
    \/ \E t \in Threads, k \in StoreKeys, d \in WriteData : StoreWriteBegin(t, k, d)
    \/ \E t \in Threads : StoreWriteInner(t)
    \/ \E t \in Threads : StoreWritePatch(t)

ConcurrentSpec == ConcurrentInit /\ [][ConcurrentNext]_vars

\* C3: when threads of one process write a key concurrently through one
\* Store, the scan for the next seq and the insertion of the patch are
\* serialized per key: every write gets a different seq and, once all writes
\* have returned, history(key) holds one patch per write.
C3_OnePatchPerWrite ==
    \A k \in StoreKeys :
        LET L == writeLog[k] IN
        /\ \A i, j \in 1..Len(L) : i # j => L[i].seq # L[j].seq
        /\ AllIdle => LET h == Store_history(files, k) IN h.ok /\ Len(h.val) = Len(L)

-----------------------------------------------------------------------------
(* Bounded channels (channel.rs): a channel is its buffer, its capacity and *)
(* whether the receiver is still held.  Senders live in watcher entries and *)
(* in threads; a channel with no sender left is disconnected.              *)

\* channel(capacity); guard tells whether the receiver comes with a
\* WatcherGuard.  stale counts, once the receiver is dropped, the watcher
\* registrations its namespace has run since.
channel(capacity, guard) ==
    [buf |-> <<>>, cap |-> capacity, rx |-> "held", guard |-> guard, stale |-> 0]

\* Sender::try_send: fails when the channel is full or the receiver is gone
try_send(ch, value) ==
    IF ch.rx = "dropped" \/ Len(ch.buf) >= ch.cap THEN [ch |-> ch, ok |-> FALSE]
    ELSE [ch |-> [ch EXCEPT !.buf = Append(@, value)], ok |-> TRUE]

\* Sender::send can complete: the channel has room, or the receiver is gone
\* and the send fails; otherwise the sender blocks
CanSend(ch) == ch.rx = "dropped" \/ Len(ch.buf) < ch.cap

\* drop(Receiver): the buffered values go with it
DropRx(ch) == [ch EXCEPT !.rx = "dropped", !.buf = <<>>]

-----------------------------------------------------------------------------
(* Watchers of the memory and the file namespace (backends/memory.rs,       *)
(* backends/file.rs)                                                        *)

\* The table's limit (1024 in the source) and the watch channels' capacity
\* (16 in the source), scaled
MAX_WATCHERS == 2
WatchCapacity == 1

Backends == {"memory", "file"}

\* Variant of check_closed that never reports a closed namespace
check_closed_open(is_closed) == Ok(TRUE)

check_closed(is_closed) == IF is_closed THEN Err("Closed") ELSE Ok(TRUE)

Watcher(pattern, tx) == [pattern |-> pattern, tx |-> tx, alive |-> TRUE, dropped |-> 0]

\* watchers.retain(|w| w.alive.load(Ordering::Acquire))
prune_dead_watchers(ws) == SelectSeq(ws, LAMBDA w : w.alive)

\* Variant of the registration that does not check the limit
watch_insert_unlimited(ws, watcher) ==
    [ws |-> Append(prune_dead_watchers(ws), watcher), res |-> Ok(watcher.tx)]

\* The block of watch under the watchers' write lock: prune, check the
\* limit, push
watch_insert(ws, watcher) ==
    LET Pushed(pruned) ==
            IF Len(pruned) >= MAX_WATCHERS THEN [ws |-> pruned, res |-> Err("Unavailable")]
            ELSE [ws |-> Append(pruned, watcher), res |-> Ok(watcher.tx)]
    IN  Pushed(prune_dead_watchers(ws))

\* notify_watchers' loop from watcher i on: ws and chs are the table and the
\* channels so far.  The memory backend counts a failed try_send in the
\* watcher's dropped counter, the file backend discards the failure.
RECURSIVE NotifyFrom(_, _, _, _, _)
NotifyFrom(backend, ws, chs, scroll, i) ==
    LET Sent(r) ==
            NotifyFrom(backend,
                       IF ~r.ok /\ backend = "memory"
                       THEN [ws EXCEPT ![i].dropped = @ + 1] ELSE ws,
                       [chs EXCEPT ![ws[i].tx] = r.ch], scroll, i + 1)
    IN  IF i > Len(ws) THEN [ws |-> ws, chs |-> chs]
        ELSE IF ~ws[i].alive \/ ~path_matches(scroll.key, ws[i].pattern)
        THEN NotifyFrom(backend, ws, chs, scroll, i + 1)
        ELSE Sent(try_send(chs[ws[i].tx], scroll))

\* notify_watchers; prune is should_prune_watchers' reading of the clock,
\* which only the memory backend consults
notify_watchers(backend, ws, chs, scroll, prune) ==
    LET Pruned(n) ==
            [ws  |-> IF backend = "memory" /\ prune THEN prune_dead_watchers(n.ws) ELSE n.ws,
             chs |-> n.chs]
    IN  Pruned(NotifyFrom(backend, ws, chs, scroll, 1))

\* MemoryNamespace::write_scroll, under the store's write lock
MemoryNamespace_write_scroll(store, scroll) ==
    LET Inserted(new_scroll) ==
            [store |-> MapInsert(store, scroll.key, new_scroll), res |-> Ok(new_scroll)]
    IN  IF ~validate_path(scroll.key) THEN [store |-> store, res |-> Err("InvalidPath")]
        ELSE Inserted(StampedScroll(scroll, (IF InMap(store, scroll.key)
                                            THEN store[scroll.key].version ELSE 0) + 1))

\* FileNamespace::write_scroll
FileNamespace_write_scroll(fs, vc, scroll) ==
    LET Stored(fs_path, prev_version, new_scroll) ==
            IF ~CanCreate(fs, fs_path) THEN [fs |-> fs, vc |-> vc, res |-> Err("Internal")]
            ELSE [fs  |-> FsPut(fs, fs_path, ScrollFile(new_scroll)),
                  vc  |-> set_version(vc, scroll.key, prev_version + 1),
                  res |-> Ok(new_scroll)]
        Versioned(fs_path, prev_version) ==
            Stored(fs_path, prev_version, StampedScroll(scroll, prev_version + 1))
    IN  IF ~validate_path(scroll.key) THEN [fs |-> fs, vc |-> vc, res |-> Err("InvalidPath")]
        ELSE Versioned(scroll_path_to_fs(scroll.key), get_version(fs, vc, scroll.key))

\* fs_path_to_scroll: the 9S path of a file under _scrolls, or none
fs_path_to_scroll(fs_path) ==
    LET Named(relative, last) ==
            IF ~EndsWith(last, JsonExt) THEN NoneV
            ELSE Some(Root \o Join(SubSeq(relative, 1, Len(relative) - 1)
                                   \o <<UpTo(last, Len(last) - Len(JsonExt))>>, Root))
        Relative(relative) ==
            IF relative = <<RootName \o JsonExt>> THEN Some(Root)
            ELSE IF relative = <<>> THEN NoneV
            ELSE Named(relative, relative[Len(relative)])
    IN  IF fs_path = <<>> \/ fs_path[1] # ScrollsDir THEN NoneV
        ELSE Relative(Tail(fs_path))

\* FileNamespace::list: walk _scrolls, keep the .json files, filter by prefix
FileNamespace_list(fs, prefix) ==
    LET Walked(found) ==
            Ok({q.v : q \in {f \in found : f.some /\ is_path_under_prefix(f.v, prefix)}})
    IN  IF ~validate_path(prefix) THEN Err("InvalidPath")
        ELSE Walked({fs_path_to_scroll(f) :
                        f \in {g \in DOMAIN fs : g[1] = ScrollsDir
                                                 /\ extension(g[Len(g)]) = Some(JsonName)}})

\* The five operations of a backend on its state: the directory and version
\* cache of the file namespace, the map of the memory namespace.  Each starts
\* with check_closed.
Backend_read(b, is_closed, fs, store, path) ==
    IF ~check_closed(is_closed).ok THEN check_closed(is_closed)
    ELSE IF b = "file" THEN FileNamespace_read(fs, path)
    ELSE MemoryNamespace_read(store, path)

Backend_list(b, is_closed, fs, store, prefix) ==
    IF ~check_closed(is_closed).ok THEN check_closed(is_closed)
    ELSE IF b = "file" THEN FileNamespace_list(fs, prefix)
    ELSE MemoryNamespace_list(store, prefix)

Backend_write(b, is_closed, fs, vc, store, path, data) ==
    LET InFile(w) == [fs |-> w.fs, vc |-> w.vc, store |-> store, res |-> w.res]
        InMemory(w) == [fs |-> fs, vc |-> vc, store |-> w.store, res |-> w.res]
    IN  IF ~check_closed(is_closed).ok
        THEN [fs |-> fs, vc |-> vc, store |-> store, res |-> check_closed(is_closed)]
        ELSE IF b = "file" THEN InFile(FileNamespace_write(fs, vc, path, data))
        ELSE InMemory(MemoryNamespace_write(store, path, data))

Backend_write_scroll(b, is_closed, fs, vc, store, scroll) ==
    LET InFile(w) == [fs |-> w.fs, vc |-> w.vc, store |-> store, res |-> w.res]
        InMemory(w) == [fs |-> fs, vc |-> vc, store |-> w.store, res |-> w.res]
    IN  IF ~check_closed(is_closed).ok
        THEN [fs |-> fs, vc |-> vc, store |-> store, res |-> check_closed(is_closed)]
        ELSE IF b = "file" THEN InFile(FileNamespace_write_scroll(fs, vc, scroll))
        ELSE InMemory(MemoryNamespace_write_scroll(store, scroll))

\* watch up to the creation of the channel: check_closed and validate_path
Backend_watch_check(is_closed, pattern) ==
    IF ~check_closed(is_closed).ok THEN check_closed(is_closed)
    ELSE IF ~validate_path(pattern) THEN Err("InvalidPath")
    ELSE Ok(TRUE)

\* Namespace::close: set the flag, clear the watcher table
Backend_close(ws) == [closed |-> TRUE, ws |-> <<>>, res |-> Ok(TRUE)]

\* A sender of channel c exists: in a watcher table, in a watch call that has
\* not registered its watcher yet, or in a forwarder that is still running
SenderAlive(c) ==
    \/ \E b \in DOMAIN watchers : \E i \in 1..Len(watchers[b]) : watchers[b][i].tx = c
    \/ \E t \in DOMAIN threads : threads[t].pc = "register" /\ threads[t].tx = c
    \/ \E f \in DOMAIN forwarders : forwarders[f].pc # "done" /\ forwarders[f].out = c

-----------------------------------------------------------------------------
(* The watchers as a state machine: a memory and a file namespace, threads   *)
(* calling watch concurrently, clients writing, reading, listing and         *)
(* closing, subscribers receiving and dropping their receivers.             *)

MaxWatchOps == 3

WatchPaths == {KeyA, KeyB}
WatchPatterns == {KeyA, KeyA \o <<"/", "*">>}
Mem == "memory"

WatchInit ==
    /\ files = <<>>
    /\ versions = <<>>
    /\ mem = [ns \in {Mem} |-> <<>>]
    /\ mounts = <<>>
    /\ threads = [t \in Threads |-> Idle]
    /\ anchorLog = {}
    /\ writeLog = <<>>
    /\ ret = [op |-> "open"]
    /\ budget = MaxWatchOps
    /\ watchers = [b \in Backends |-> <<>>]
    /\ chans = <<>>
    /\ closed = [b \in Backends |-> FALSE]
    /\ forwarders = <<>>
    /\ NoVault

watchUnused == <<mounts, anchorLog, writeLog, forwarders, vaultVars>>

\* The entries registered in ws whose receiver is still held
HeldIn(ws) == {i \in 1..Len(ws) : chans[ws[i].tx].rx = "held"}

\* ns.watch(pattern) up to the creation of the channel and the watcher;
\* guard: the call is MemoryNamespace::watch_with_guard
WatchBegin(t, b, pattern, guard) ==
    /\ budget > 0
    /\ threads[t] = Idle
    /\ guard => b = Mem
    /\ budget' = budget - 1
    /\ \E r \in {Backend_watch_check(closed[b], pattern)} :
          IF r.ok
          THEN /\ chans' = Append(chans, [channel(WatchCapacity, guard) EXCEPT !.rx = "pending"])
               /\ threads' = [threads EXCEPT ![t] =
                                 [pc |-> "register", ns |-> b, pattern |-> pattern,
                                  tx |-> Len(chans) + 1]]
               /\ UNCHANGED ret
          ELSE /\ ret' = [op |-> "watch", ns |-> b, was_closed |-> closed[b], res |-> r,
                          changed |-> FALSE]
               /\ UNCHANGED <<chans, threads>>
    /\ UNCHANGED <<files, versions, mem, watchers, closed>>
    /\ UNCHANGED watchUnused

\* The rest of watch: under the watchers' write lock prune, check the limit
\* and push; then hand the receiver to the subscriber
WatchRegister(t) ==
    /\ threads[t].pc = "register"
    /\ \E b \in {threads[t].ns} :
       \E r \in {watch_insert(watchers[b], Watcher(threads[t].pattern, threads[t].tx))} :
          /\ watchers' = [watchers EXCEPT ![b] = r.ws]
          /\ chans' = [c \in 1..Len(chans) |->
                          IF c = threads[t].tx
                          THEN [chans[c] EXCEPT !.rx = IF r.res.ok THEN "held" ELSE "dropped"]
                          ELSE IF chans[c].rx = "dropped"
                                  /\ \E i \in 1..Len(watchers[b]) : watchers[b][i].tx = c
                          THEN [chans[c] EXCEPT !.stale = @ + 1]
                          ELSE chans[c]]
          /\ ret' = [op |-> "watch", ns |-> b, was_closed |-> FALSE, res |-> r.res,
                     changed |-> FALSE, held |-> Cardinality(HeldIn(watchers[b]))]
    /\ threads' = [threads EXCEPT ![t] = Idle]
    /\ UNCHANGED <<files, versions, mem, closed, budget>>
    /\ UNCHANGED watchUnused

\* What a write leaves behind: the new state of the backend, the watcher
\* table and the channels after notify_watchers
Notified(b, w, prune) ==
    IF w.res.ok THEN notify_watchers(b, watchers[b], chans, w.res.val, prune)
    ELSE [ws |-> watchers[b], chs |-> chans]

NsWritten(b, op, w, n) ==
    /\ files' = w.fs
    /\ versions' = w.vc
    /\ mem' = [mem EXCEPT ![Mem] = w.store]
    /\ watchers' = [watchers EXCEPT ![b] = n.ws]
    /\ chans' = n.chs
    /\ ret' = [op |-> op, ns |-> b, was_closed |-> closed[b], res |-> w.res,
               changed |-> <<w.fs, w.vc, w.store>> # <<files, versions, mem[Mem]>>]

\* ns.write(path, data); prune is what should_prune_watchers reads off the clock
NsWrite(b, path, data, prune) ==
    /\ budget > 0
    /\ prune => b = Mem
    /\ \E w \in {Backend_write(b, closed[b], files, versions, mem[Mem], path, data)} :
       \E n \in {Notified(b, w, prune)} : NsWritten(b, "write", w, n)
    /\ budget' = budget - 1
    /\ UNCHANGED <<threads, closed>>
    /\ UNCHANGED watchUnused

\* ns.write_scroll(scroll)
NsWriteScroll(b, scroll, prune) ==
    /\ budget > 0
    /\ prune => b = Mem
    /\ \E w \in {Backend_write_scroll(b, closed[b], files, versions, mem[Mem], scroll)} :
       \E n \in {Notified(b, w, prune)} : NsWritten(b, "write_scroll", w, n)
    /\ budget' = budget - 1
    /\ UNCHANGED <<threads, closed>>
    /\ UNCHANGED watchUnused

\* ns.read(path)
NsRead(b, path) ==
    /\ budget > 0
    /\ ret' = [op |-> "read", ns |-> b, was_closed |-> closed[b], changed |-> FALSE,
               res |-> Backend_read(b, closed[b], files, mem[Mem], path)]
    /\ budget' = budget - 1
    /\ UNCHANGED <<files, versions, mem, threads, watchers, chans, closed>>
    /\ UNCHANGED watchUnused

\* ns.list(prefix)
NsList(b, prefix) ==
    /\ budget > 0
    /\ ret' = [op |-> "list", ns |-> b, was_closed |-> closed[b], changed |-> FALSE,
               res |-> Backend_list(b, closed[b], files, mem[Mem], prefix)]
    /\ budget' = budget - 1
    /\ UNCHANGED <<files, versions, mem, threads, watchers, chans, closed>>
    /\ UNCHANGED watchUnused

\* ns.close()
NsClose(b) ==
    /\ budget > 0
    /\ \E c \in {Backend_close(watchers[b])} :
          /\ closed' = [closed EXCEPT ![b] = c.closed]
          /\ watchers' = [watchers EXCEPT ![b] = c.ws]
          /\ ret' = [op |-> "close", ns |-> b, was_closed |-> closed[b], res |-> c.res,
                     changed |-> FALSE]
    /\ budget' = budget - 1
    /\ UNCHANGED <<files, versions, mem, threads, chans>>
    /\ UNCHANGED watchUnused

\* rx.recv() by the subscriber: the next queued scroll, or the end of the
\* stream once the queue is empty and no sender is left; it blocks otherwise
Recv(c) ==
    /\ chans[c].rx = "held"
    /\ IF chans[c].buf # <<>>
       THEN /\ chans' = [chans EXCEPT ![c].buf = Tail(@)]
            /\ ret' = [op |-> "recv", chan |-> c, res |-> Some(Head(chans[c].buf))]
       ELSE /\ ~SenderAlive(c)
            /\ ret' = [op |-> "recv", chan |-> c, res |-> NoneV]
            /\ UNCHANGED chans
    /\ UNCHANGED <<files, versions, mem, threads, watchers, closed, budget>>
    /\ UNCHANGED watchUnused

\* The subscriber drops the receiver; a WatcherGuard clears the alive flag
DropReceiver(c) ==
    /\ chans[c].rx = "held"
    /\ chans' = [chans EXCEPT ![c] = DropRx(@)]
    /\ watchers' = [b \in DOMAIN watchers |->
                       [i \in 1..Len(watchers[b]) |->
                           IF watchers[b][i].tx = c /\ chans[c].guard
                           THEN [watchers[b][i] EXCEPT !.alive = FALSE]
                           ELSE watchers[b][i]]]
    /\ ret' = [op |-> "drop", chan |-> c]
    /\ UNCHANGED <<files, versions, mem, threads, closed, budget>>
    /\ UNCHANGED watchUnused

WatchNext ==
    \/ \E t \in Threads, b \in Backends, pattern \in WatchPatterns, guard \in BOOLEAN :
          WatchBegin(t, b, pattern, guard)
    \/ \E t \in Threads : WatchRegister(t)
    \/ \E b \in Backends, path \in WatchPaths, prune \in BOOLEAN : NsWrite(b, path, D1, prune)
    \/ \E b \in Backends, prune \in BOOLEAN :
          NsWriteScroll(b, ScrollTyped(KeyA, D1, NoteType), prune)
    \/ \E b \in Backends : NsRead(b, KeyA)
    \/ \E b \in Backends : NsList(b, Root)
    \/ \E b \in Backends : NsClose(b)
    \/ \E c \in 1..Len(chans) : Recv(c)
    \/ \E c \in 1..Len(chans) : DropReceiver(c)

WatchSpec == WatchInit /\ [][WatchNext]_vars

-----------------------------------------------------------------------------
(* Properties of the watchers                                               *)

\* C12: the watcher table of a memory or file namespace never holds more
\* than MAX_WATCHERS entries, however concurrent watch calls interleave, and
\* a watch call that registers while MAX_WATCHERS watchers with a held
\* receiver are in the table fails with Unavailable.
C12_WatcherLimit ==
    /\ \A b \in DOMAIN watchers : Len(watchers[b]) <= MAX_WATCHERS
    /\ ret.op = "watch" /\ ~ret.was_closed /\ ret.res # Err("InvalidPath")
          => (ret.held >= MAX_WATCHERS => ret.res = Err("Unavailable"))

C12_Witness ==
    /\ ret.op = "watch"
    /\ ret.res = Err("Unavailable")
    /\ ret.held = MAX_WATCHERS
    /\ Len(watchers[ret.ns]) = MAX_WATCHERS

\* C13: once a subscriber has dropped a receiver obtained from watch, the
\* watcher entry is gone from the table after the next watch registration
\* on the namespace at the latest.
C13_DroppedWatcherPruned ==
    \A b \in DOMAIN watchers : \A i \in 1..Len(watchers[b]) :
        chans[watchers[b][i].tx].rx = "dropped" => chans[watchers[b][i].tx].stale = 0

NamespaceOps == {"read", "write", "write_scroll", "list", "watch"}

\* C14: a read, write, write_scroll, list or watch invoked on a closed
\* memory or file namespace fails with Closed and changes no stored scroll;
\* close on a closed namespace succeeds.
C14_ClosedRejects ==
    /\ ret.op \in NamespaceOps /\ ret.was_closed => ret.res = Err("Closed") /\ ~ret.changed
    /\ ret.op = "close" => ret.res.ok

C14_Witness ==
    /\ ret.op \in {"write", "write_scroll"}
    /\ ret.was_closed
    /\ ret.res = Err("Closed")
    /\ IF ret.ns = Mem THEN mem[Mem] # <<>> ELSE files # <<>>

\* C15: once close has returned on a namespace its watcher table is empty
\* and stays empty, so every receiver handed out by watch -- also by a watch
\* call that ran concurrently with close -- sees the end of the stream.
C15_CloseCancelsWatches ==
    \A b \in DOMAIN closed : closed[b] => watchers[b] = <<>>

\* the watchers of backend b that a write of key notifies
Matching(b, key) ==
    {i \in 1..Len(watchers[b]) :
        watchers[b][i].alive /\ path_matches(key, watchers[b][i].pattern)
        /\ chans[watchers[b][i].tx].rx = "held"}

IsFull(ch) == Len(ch.buf) >= ch.cap

\* the step is a successful write or write_scroll on a backend
WriteStep == ret' # ret /\ ret'.op \in {"write", "write_scroll"} /\ ret'.res.ok

\* C16: a write returns even when a matching watcher's channel is full: for
\* that watcher the event is dropped, its drop counter grows by one and it
\* stays registered; the other matching watchers receive the event.
C16_FullChannelStep ==
    WriteStep =>
        \A i \in Matching(ret'.ns, ret'.res.val.key) :
            LET w == watchers[ret'.ns][i] IN
            IF IsFull(chans[w.tx])
            THEN /\ chans'[w.tx].buf = chans[w.tx].buf
                 /\ \E j \in 1..Len(watchers'[ret'.ns]) :
                       /\ watchers'[ret'.ns][j].tx = w.tx
                       /\ watchers'[ret'.ns][j].dropped = w.dropped + 1
            ELSE chans'[w.tx].buf = Append(chans[w.tx].buf, ret'.res.val)

C16_FullChannelDrops == [][C16_FullChannelStep]_vars

-----------------------------------------------------------------------------
(* Forwarder threads: Kernel::watch (kernel.rs) and Store::watch_decrypted  *)
(* (store.rs) spawn a thread that receives from the backend's channel,      *)
(* translates each scroll and sends it on to the subscriber's channel.      *)

\* str::trim_end_matches(pat): the suffix pat removed as often as it occurs
RECURSIVE TrimEndMatches(_, _)
TrimEndMatches(s, pat) ==
    IF pat # <<>> /\ EndsWith(s, pat) THEN TrimEndMatches(UpTo(s, Len(s) - Len(pat)), pat)
    ELSE s

\* The key the thread of Kernel::watch gives a scroll of the backend:
\* "Restore original path prefix"
Kernel_watch_key(pattern, stripped, key) ==
    LET Prefixed(mount_prefix) == IF key = Root THEN mount_prefix ELSE mount_prefix \o key
    IN  IF stripped = Root
        THEN TrimEndMatches(TrimEndMatches(pattern, <<"/", "*", "*">>), <<"/", "*">>) \o key
        ELSE Prefixed(UpTo(pattern, Len(pattern) - Len(stripped)))

\* decrypt_scroll (store.rs): the scroll that was sealed into the data of
\* sealed_scroll
decrypt_scroll(key, sealed_scroll) ==
    LET Opened(plaintext) ==
            IF ~plaintext.ok THEN Err("Internal") ELSE Ok(plaintext.val)
    IN  IF sealed_scroll.data.t # "sealed" THEN Err("Internal")
        ELSE Opened(unseal(key, sealed_scroll.data))

\* A forwarder thread: where it stands (recv, send, done), the channel it
\* receives from, the channel it sends to, and what its closure captured
Forwarder(kind, in, out, pattern, stripped) ==
    [kind |-> kind, pc |-> "recv", in |-> in, out |-> out, pattern |-> pattern,
     stripped |-> stripped, item |-> NoneV]

\* The body of the thread's loop up to the send
Forwarded(fw, scroll) ==
    IF fw.kind = "kernel"
    THEN Ok([scroll EXCEPT !.key = Kernel_watch_key(fw.pattern, fw.stripped, scroll.key)])
    ELSE decrypt_scroll(StoreKey, scroll)

forwardUnchanged ==
    <<files, versions, mem, mounts, threads, anchorLog, writeLog, ret, budget, watchers,
      closed, vaultVars>>

\* rx.recv() in the thread: it takes the next scroll of the backend's channel
\* and translates it; it ends when the channel is empty and has no sender
\* left, and blocks while the channel is empty and a sender is left.  A
\* scroll that does not decrypt is skipped.
ForwarderRecv(f) ==
    /\ f \in DOMAIN forwarders
    /\ forwarders[f].pc = "recv"
    /\ \E fw \in {forwarders[f]} :
          IF chans[fw.in].buf # <<>>
          THEN /\ chans' = [chans EXCEPT ![fw.in].buf = Tail(@)]
               /\ \E r \in {Forwarded(fw, Head(chans[fw.in].buf))} :
                     forwarders' = IF r.ok
                                   THEN [forwarders EXCEPT ![f].pc = "send",
                                                           ![f].item = Some(r.val)]
                                   ELSE forwarders
          ELSE /\ ~SenderAlive(fw.in)
               /\ chans' = [chans EXCEPT ![fw.in] = DropRx(@)]
               /\ forwarders' = [forwarders EXCEPT ![f].pc = "done"]
    /\ UNCHANGED forwardUnchanged

\* tx.send(scroll) in the thread: it fails when the subscriber dropped the
\* receiver, and the thread breaks out of its loop; it blocks while the
\* subscriber's channel is full
ForwarderSend(f) ==
    /\ f \in DOMAIN forwarders
    /\ forwarders[f].pc = "send"
    /\ CanSend(chans[forwarders[f].out])
    /\ \E fw \in {forwarders[f]} :
       \E r \in {try_send(chans[fw.out], fw.item.v)} :
          IF r.ok
          THEN /\ chans' = [chans EXCEPT ![fw.out] = r.ch]
               /\ forwarders' = [forwarders EXCEPT ![f].pc = "recv", ![f].item = NoneV]
          ELSE /\ chans' = [chans EXCEPT ![fw.in] = DropRx(@)]
               /\ forwarders' = [forwarders EXCEPT ![f].pc = "done", ![f].item = NoneV]
    /\ UNCHANGED forwardUnchanged

-----------------------------------------------------------------------------
(* Kernel::watch as a state machine: a kernel with two memory namespaces,   *)
(* clients mounting, watching and writing through the kernel, the           *)
(* forwarder threads, and subscribers receiving and dropping.               *)

MaxForwardOps == 4
MaxForwarders == 2

ForwardMounts == {<<Wallet, "A">>, <<Root, "B">>}
ForwardPatterns == {Wallet, Wallet \o <<"/", "*", "*">>, Wallet \o Balance, Root}
ForwardPaths == {Wallet, Wallet \o Balance, Root}

ForwardInit ==
    /\ files = <<>>
    /\ versions = <<>>
    /\ mem = [ns \in Namespaces |-> <<>>]
    /\ mounts = <<>>
    /\ threads = <<>>
    /\ anchorLog = {}
    /\ writeLog = <<>>
    /\ ret = [op |-> "new"]
    /\ budget = MaxForwardOps
    /\ watchers = [ns \in Namespaces |-> <<>>]
    /\ chans = <<>>
    /\ closed = [ns \in Namespaces |-> FALSE]
    /\ forwarders = <<>>
    /\ NoVault

\* <Kernel as Namespace>::watch(pattern): resolve, watch the namespace with
\* the stripped pattern, create the subscriber's channel, spawn the thread
KernelWatch(pattern) ==
    /\ budget > 0
    /\ Len(forwarders) < MaxForwarders
    /\ budget' = budget - 1
    /\ \E r \in {Kernel_resolve(mounts, pattern)} :
          IF ~r.ok
          THEN /\ ret' = [op |-> "kernel_watch", pattern |-> pattern, res |-> r]
               /\ UNCHANGED <<watchers, chans, forwarders>>
          ELSE \E c \in {Backend_watch_check(closed[r.val.ns], r.val.stripped)} :
               \E w \in {watch_insert(watchers[r.val.ns],
                                      Watcher(r.val.stripped, Len(chans) + 1))} :
                  IF ~c.ok \/ ~w.res.ok
                  THEN /\ ret' = [op |-> "kernel_watch", pattern |-> pattern,
                                  res |-> IF ~c.ok THEN c ELSE w.res]
                       /\ UNCHANGED <<watchers, chans, forwarders>>
                  ELSE /\ watchers' = [watchers EXCEPT ![r.val.ns] = w.ws]
                       /\ chans' = chans \o <<channel(WatchCapacity, FALSE),
                                              channel(WatchCapacity, FALSE)>>
                       /\ forwarders' = Append(forwarders,
                                               Forwarder("kernel", Len(chans) + 1,
                                                         Len(chans) + 2, pattern,
                                                         r.val.stripped))
                       /\ ret' = [op |-> "kernel_watch", pattern |-> pattern,
                                  res |-> Ok(Len(chans) + 2)]
    /\ UNCHANGED <<files, versions, mem, mounts, threads, anchorLog, writeLog, closed,
                   vaultVars>>

\* <Kernel as Namespace>::write(path, data) with the namespace's dispatch to
\* its watchers; writeLog keeps the kernel paths written
KernelWriteWatched(path, data) ==
    /\ budget > 0
    /\ budget' = budget - 1
    /\ \E r \in {Kernel_resolve(mounts, path)} :
          IF ~r.ok
          THEN /\ ret' = [op |-> "kernel_write", path |-> path, res |-> r]
               /\ UNCHANGED <<mem, watchers, chans, writeLog>>
          ELSE \E w \in {Backend_write(Mem, closed[r.val.ns], files, versions,
                                       mem[r.val.ns], r.val.stripped, data)} :
               \E n \in {IF w.res.ok
                         THEN notify_watchers(Mem, watchers[r.val.ns], chans, w.res.val,
                                              FALSE)
                         ELSE [ws |-> watchers[r.val.ns], chs |-> chans]} :
                  /\ mem' = [mem EXCEPT ![r.val.ns] = w.store]
                  /\ watchers' = [watchers EXCEPT ![r.val.ns] = n.ws]
                  /\ chans' = n.chs
                  /\ writeLog' = IF w.res.ok THEN Append(writeLog, path) ELSE writeLog
                  /\ ret' = [op |-> "kernel_write", path |-> path,
                             res |-> IF w.res.ok THEN Ok([w.res.val EXCEPT !.key = path])
                                     ELSE w.res]
    /\ UNCHANGED <<files, versions, mounts, threads, anchorLog, closed, forwarders,
                   vaultVars>>

\* The subscriber's side of forwarder f
SubscriberRecv(f) == f \in DOMAIN forwarders /\ Recv(forwarders[f].out)

SubscriberDrop(f) == f \in DOMAIN forwarders /\ DropReceiver(forwarders[f].out)

ForwardNext ==
    \/ \E m \in ForwardMounts : Mount(m[1], m[2])
    \/ \E pattern \in ForwardPatterns : KernelWatch(pattern)
    \/ \E path \in ForwardPaths : KernelWriteWatched(path, Hundred)
    \/ \E ns \in Namespaces : NsClose(ns)
    \/ \E f \in 1..MaxForwarders : ForwarderRecv(f)
    \/ \E f \in 1..MaxForwarders : ForwarderSend(f)
    \/ \E f \in 1..MaxForwarders : SubscriberRecv(f)
    \/ \E f \in 1..MaxForwarders : SubscriberDrop(f)

ForwardSpec == ForwardInit /\ [][ForwardNext]_vars

\* The threads are scheduled: a thread that can take its next step does
ForwardFairSpec ==
    /\ ForwardSpec
    /\ \A f \in 1..MaxForwarders : WF_vars(ForwarderRecv(f)) /\ WF_vars(ForwarderSend(f))

-----------------------------------------------------------------------------
(* Properties of Kernel::watch                                              *)

\* The scrolls forwarder f has queued for its subscriber
QueuedFor(f) == chans[forwarders[f].out].buf

\* C11: every scroll delivered on a receiver from Kernel.watch(pattern)
\* carries the full kernel path, the mount prefix restored, so that its key
\* matches the pattern and is a path that was written through the kernel;
\* for every pattern that resolves to a mount, the mount path included.
C11_WatchFullPaths ==
    \A f \in DOMAIN forwarders : \A i \in 1..Len(QueuedFor(f)) :
        /\ path_matches(QueuedFor(f)[i].key, forwarders[f].pattern)
        /\ \E j \in 1..Len(writeLog) : writeLog[j] = QueuedFor(f)[i].key

\* C17: once the subscriber has dropped the receiver it got from
\* Kernel.watch, the forwarder thread terminates, whether or not a matching
\* write follows.
C17_ForwarderTerminates ==
    \A f \in 1..MaxForwarders :
        (f \in DOMAIN forwarders /\ chans[forwarders[f].out].rx = "dropped")
            ~> (f \in DOMAIN forwarders /\ forwarders[f].pc = "done")

-----------------------------------------------------------------------------
(* Watching an encrypted Store (store.rs): the store writes sealed scrolls  *)
(* to its file namespace, whose watchers are notified of what it wrote.     *)

MaxStoreWatchOps == 4

File == "file"
StoreWatchPatterns == {KeyA, Root \o <<"*", "*">>}
\* the channel of watch_decrypted holds 64 scrolls, four times a watcher's 16
DecryptCapacity == 4 * WatchCapacity

StoreWatchInit ==
    /\ files = <<>>
    /\ versions = <<>>
    /\ mem = <<>>
    /\ mounts = <<>>
    /\ threads = <<>>
    /\ anchorLog = {}
    /\ writeLog = <<>>
    /\ ret = [op |-> "open"]
    /\ budget = MaxStoreWatchOps
    /\ watchers = [b \in {File} |-> <<>>]
    /\ chans = <<>>
    /\ closed = [b \in {File} |-> FALSE]
    /\ forwarders = <<>>
    /\ NoVault

storeWatchUnused == <<mem, mounts, threads, anchorLog, closed, vaultVars>>

\* The scroll FileNamespace::write dispatched to the watchers: the one it
\* stored under path
InnerScroll(fs, path) == FileNamespace_read(fs, path).val.v

\* <Store as Namespace>::write(path, data) with the dispatch of the inner
\* write; writeLog keeps the scrolls the store's writes returned
StoreWriteWatched(k, d) ==
    /\ budget > 0
    /\ budget' = budget - 1
    /\ \E r \in {IF closed[File]
                 THEN [fs |-> files, vc |-> versions, res |-> Err("Closed")]
                 ELSE Store_write(files, versions, k, d)} :
       \E n \in {IF r.res.ok
                 THEN notify_watchers(File, watchers[File], chans,
                                      InnerScroll(r.fs, k), FALSE)
                 ELSE [ws |-> watchers[File], chs |-> chans]} :
          /\ files' = r.fs
          /\ versions' = r.vc
          /\ watchers' = [watchers EXCEPT ![File] = n.ws]
          /\ chans' = n.chs
          /\ writeLog' = IF r.res.ok THEN Append(writeLog, r.res.val) ELSE writeLog
          /\ ret' = [op |-> "write", key |-> k, res |-> r.res]
    /\ UNCHANGED forwarders
    /\ UNCHANGED storeWatchUnused

\* <Store as Namespace>::watch(pattern): the receiver of inner.watch(pattern)
StoreWatch(pattern) ==
    /\ budget > 0
    /\ budget' = budget - 1
    /\ \E c \in {Backend_watch_check(closed[File], pattern)} :
       \E w \in {watch_insert(watchers[File], Watcher(pattern, Len(chans) + 1))} :
          IF ~c.ok \/ ~w.res.ok
          THEN /\ ret' = [op |-> "watch", res |-> IF ~c.ok THEN c ELSE w.res]
               /\ UNCHANGED <<watchers, chans>>
          ELSE /\ watchers' = [watchers EXCEPT ![File] = w.ws]
               /\ chans' = Append(chans, channel(WatchCapacity, FALSE))
               /\ ret' = [op |-> "watch", res |-> Ok(Len(chans) + 1)]
    /\ UNCHANGED <<files, versions, writeLog, forwarders>>
    /\ UNCHANGED storeWatchUnused

\* Store::watch_decrypted(pattern): inner.watch(pattern), a channel of 64
\* and a thread that decrypts
StoreWatchDecrypted(pattern) ==
    /\ budget > 0
    /\ Len(forwarders) < MaxForwarders
    /\ budget' = budget - 1
    /\ \E c \in {Backend_watch_check(closed[File], pattern)} :
       \E w \in {watch_insert(watchers[File], Watcher(pattern, Len(chans) + 1))} :
          IF ~c.ok \/ ~w.res.ok
          THEN /\ ret' = [op |-> "watch_decrypted", res |-> IF ~c.ok THEN c ELSE w.res]
               /\ UNCHANGED <<watchers, chans, forwarders>>
          ELSE /\ watchers' = [watchers EXCEPT ![File] = w.ws]
               /\ chans' = chans \o <<channel(WatchCapacity, FALSE),
                                      channel(DecryptCapacity, FALSE)>>
               /\ forwarders' = Append(forwarders,
                                       Forwarder("store", Len(chans) + 1, Len(chans) + 2,
                                                 pattern, pattern))
               /\ ret' = [op |-> "watch_decrypted", res |-> Ok(Len(chans) + 2)]
    /\ UNCHANGED <<files, versions, writeLog>>
    /\ UNCHANGED storeWatchUnused

\* The channels whose receiver a subscriber got: all but those a forwarder
\* thread receives from
SubscriberChans == {c \in 1..Len(chans) : \A f \in DOMAIN forwarders : forwarders[f].in # c}

\* The receivers <Store as Namespace>::watch returned: registered with the
\* file namespace and handed to the subscriber as they are
WatchChans ==
    {c \in SubscriberChans : \E i \in 1..Len(watchers[File]) : watchers[File][i].tx = c}

\* The receivers Store::watch_decrypted returned
DecryptedChans == {forwarders[f].out : f \in DOMAIN forwarders}

StoreWatchNext ==
    \/ \E k \in StoreKeys, d \in WriteData : StoreWriteWatched(k, d)
    \/ \E pattern \in StoreWatchPatterns : StoreWatch(pattern)
    \/ \E pattern \in StoreWatchPatterns : StoreWatchDecrypted(pattern)
    \/ NsClose(File)
    \/ \E f \in 1..MaxForwarders : ForwarderRecv(f)
    \/ \E f \in 1..MaxForwarders : ForwarderSend(f)
    \/ \E c \in SubscriberChans : Recv(c)
    \/ \E c \in SubscriberChans : DropReceiver(c)

StoreWatchSpec == StoreWatchInit /\ [][StoreWatchNext]_vars

-----------------------------------------------------------------------------
(* Properties of watching a Store                                           *)

\* scroll is one a write of the store returned, data in the clear
InTheClear(scroll) ==
    /\ scroll.data.t # "sealed"
    /\ \E j \in 1..Len(writeLog) : writeLog[j] = scroll

\* C18: on an encrypted store the watch operation of the five-operation
\* interface delivers unsealed scrolls: what a receiver of watch gets for a
\* write of v to p has data v, as read(p) returns it, never the sealed
\* envelope.
C18_WatchDeliversUnsealed ==
    \A c \in WatchChans : \A i \in 1..Len(chans[c].buf) : InTheClear(chans[c].buf[i])

\* What watch_decrypted delivers is unsealed
WatchDecryptedUnsealed ==
    \A c \in DecryptedChans : \A i \in 1..Len(chans[c].buf) : InTheClear(chans[c].buf[i])

-----------------------------------------------------------------------------
(* 64-bit unsigned arithmetic: a u64 is four limbs of 16 bits, the least    *)
(* significant first.  An operation returns its wrapped value and whether   *)
(* it overflowed.                                                           *)

U64Base == 256 * 256

U64(n) == <<n % U64Base, n \div U64Base, 0, 0>>

\* x * k limb by limb, k below 2^15; carry is what the lower limbs carried in
RECURSIVE MulLimbs(_, _, _)
MulLimbs(x, k, carry) ==
    LET Cons(digit, rest) == [val |-> <<digit>> \o rest.val, carry |-> rest.carry]
        Limb(product) ==
            Cons(product % U64Base, MulLimbs(Tail(x), k, product \div U64Base))
    IN  IF x = <<>> THEN [val |-> <<>>, carry |-> carry]
        ELSE Limb(Head(x) * k + carry)

\* u64 multiplication by a small factor
U64Mul(x, k) ==
    LET Wrapped(m) == [val |-> m.val, overflow |-> m.carry # 0]
    IN  Wrapped(MulLimbs(x, k, 0))

\* 2u64.pow(exp): bit exp set, which lies in limb exp / 16; from exp = 64 on
\* the power does not fit and the wrapped value is 0
U64Pow2(exp) ==
    [val      |-> [i \in 1..4 |-> IF exp < 64 /\ i = exp \div 16 + 1 THEN 2 ^ (exp % 16)
                                  ELSE 0],
     overflow |-> exp >= 64]

\* x.min(k) for k below 2^16, as a number
U64Min(x, k) == IF x[4] = 0 /\ x[3] = 0 /\ x[2] = 0 /\ x[1] < k THEN x[1] ELSE k

-----------------------------------------------------------------------------
(* RateLimiter (vault/session.rs): times are seconds on a monotonic clock    *)

MAX_ATTEMPTS == 3
BASE_LOCKOUT_SECS == 60
MAX_LOCKOUT_SECS == 1800
RESET_AFTER_SECS == 3600

\* RateLimiter::new; poisoned is the state of the Mutex that holds the limiter
RateLimiter_new ==
    [failed_attempts |-> 0, last_attempt |-> NoneV, locked_until |-> NoneV,
     poisoned |-> FALSE]

\* Variant of check_locked that lets every call through
check_locked_open(l, t) == [limiter |-> l, res |-> Ok(TRUE)]

\* RateLimiter::check_locked at time t
check_locked(l, t) ==
    LET Checked(r) ==
            IF r.locked_until.some /\ t < r.locked_until.v
            THEN [limiter |-> r, res |-> Err("locked")]
            ELSE [limiter |-> [r EXCEPT !.locked_until = NoneV], res |-> Ok(TRUE)]
    IN  Checked(IF l.last_attempt.some /\ t - l.last_attempt.v > RESET_AFTER_SECS
                THEN [l EXCEPT !.failed_attempts = 0, !.locked_until = NoneV]
                ELSE l)

\* BASE_LOCKOUT_SECS * 2u64.pow(multiplier)
lockout_secs(multiplier) ==
    LET Scaled(p, m) == [val |-> m.val, overflow |-> p.overflow \/ m.overflow]
        Times(p) == Scaled(p, U64Mul(p.val, BASE_LOCKOUT_SECS))
    IN  Times(U64Pow2(multiplier))

\* RateLimiter::record_failure at time t.  With overflow checks (a debug
\* build) an overflowing pow or multiplication panics, which leaves the
\* counter and last_attempt updated, locked_until as it was and the Mutex
\* poisoned; without them (a release build) the arithmetic wraps.
record_failure(l, t, overflow_checks) ==
    LET Locked(counted, secs) ==
            IF secs.overflow /\ overflow_checks THEN [counted EXCEPT !.poisoned = TRUE]
            ELSE [counted EXCEPT !.locked_until = Some(t + U64Min(secs.val, MAX_LOCKOUT_SECS))]
        Counted(counted) ==
            IF counted.failed_attempts >= MAX_ATTEMPTS
            THEN Locked(counted, lockout_secs((counted.failed_attempts - MAX_ATTEMPTS)
                                              \div MAX_ATTEMPTS))
            ELSE counted
    IN  Counted([l EXCEPT !.failed_attempts = @ + 1, !.last_attempt = Some(t)])

\* RateLimiter::record_success
record_success(l) ==
    [l EXCEPT !.failed_attempts = 0, !.last_attempt = NoneV, !.locked_until = NoneV]

-----------------------------------------------------------------------------
(* VaultStore (vault/store.rs): a file namespace and a rate limiter         *)

PassphraseHashPath ==
    <<"/", "p", "a", "s", "s", "p", "h", "r", "a", "s", "e", "-", "h", "a", "s", "h">>
SaltPath == <<"/", "s", "a", "l", "t">>
SeedPath == <<"/", "s", "e", "e", "d">>

\* crypto::hash_passphrase: the PHC string carries its salt
hash_passphrase(passphrase, salt) == <<"$argon2id$">> \o salt \o <<"$">> \o passphrase

\* crypto::verify_passphrase: the hash recomputed with the salt of the PHC string
verify_passphrase(passphrase, hash) ==
    Len(hash) >= 3 /\ hash = hash_passphrase(passphrase, <<hash[2]>>)

\* crypto::derive_key
derive_key(passphrase, salt) == <<"argon2">> \o passphrase \o salt

\* VaultStore::is_initialized that never finds the vault initialized
VaultStore_is_initialized_never(fs) == Ok(FALSE)

\* VaultStore::is_initialized
VaultStore_is_initialized(fs) ==
    LET Stored(scroll) ==
            IF ~scroll.ok THEN Err("Storage")
            ELSE IF scroll.val.some THEN Ok(scroll.val.v.data.t = "str") ELSE Ok(FALSE)
    IN  Stored(FileNamespace_read(fs, PassphraseHashPath))

\* crypto::seal and crypto::unseal with the vault key (AES-256-GCM): the
\* ciphertext opens only under the key it was made with
crypto_seal(key, plaintext) == <<"aes256gcm">> \o key \o plaintext

crypto_unseal(key, ciphertext) ==
    LET Opened(envelope) ==
            IF StartsWith(ciphertext, envelope)
            THEN Ok(SubSeq(ciphertext, Len(envelope) + 1, Len(ciphertext)))
            ELSE Err("DecryptionFailed")
    IN  Opened(<<"aes256gcm">> \o key)

\* VaultStore::initialize_internal; salt and hash_salt are the random salts
\* of the call
VaultStore_initialize_internal(fs, vc, passphrase, seed_phrase, salt, hash_salt) ==
    LET Done(w, vault_key) ==
            [fs |-> w.fs, vc |-> w.vc,
             res |-> IF w.res.ok THEN Ok(vault_key) ELSE Err("Storage")]
        Third(w, vault_key) ==
            IF ~w.res.ok THEN [fs |-> w.fs, vc |-> w.vc, res |-> Err("Storage")]
            ELSE Done(FileNamespace_write(w.fs, w.vc, SeedPath,
                          JObj(MapInsert(EmptyMap, <<"ciphertext">>,
                                         JStr(crypto_seal(vault_key, seed_phrase))))),
                      vault_key)
        Second(w, vault_key) ==
            IF ~w.res.ok THEN [fs |-> w.fs, vc |-> w.vc, res |-> Err("Storage")]
            ELSE Third(FileNamespace_write(w.fs, w.vc, SaltPath, JStr(salt)), vault_key)
    IN  Second(FileNamespace_write(fs, vc, PassphraseHashPath,
                                   JStr(hash_passphrase(passphrase, hash_salt))),
               derive_key(passphrase, salt))

\* VaultStore::initialize
VaultStore_initialize(fs, vc, passphrase, seed_phrase, salt, hash_salt) ==
    LET First(initialized) ==
            IF ~initialized.ok THEN [fs |-> fs, vc |-> vc, res |-> initialized]
            ELSE IF initialized.val THEN [fs |-> fs, vc |-> vc, res |-> Err("AlreadyInitialized")]
            ELSE VaultStore_initialize_internal(fs, vc, passphrase, seed_phrase, salt, hash_salt)
    IN  First(VaultStore_is_initialized(fs))

\* VaultStore::unlock at time t
VaultStore_unlock(fs, l, t, passphrase, overflow_checks) ==
    LET Derived(salt_scroll) ==
            IF ~salt_scroll.ok THEN Err("Storage")
            ELSE IF ~salt_scroll.val.some THEN Err("VaultNotInitialized")
            ELSE IF salt_scroll.val.v.data.t # "str" THEN Err("Storage")
            ELSE Ok(derive_key(passphrase, salt_scroll.val.v.data.s))
        Failed(r) ==
            [limiter |-> r,
             res |-> IF r.poisoned THEN Err("Panic") ELSE Err("InvalidPassphrase")]
        Verified(checked, hash_scroll) ==
            IF ~hash_scroll.ok THEN [limiter |-> checked, res |-> Err("Storage")]
            ELSE IF ~hash_scroll.val.some
            THEN [limiter |-> checked, res |-> Err("VaultNotInitialized")]
            ELSE IF hash_scroll.val.v.data.t # "str"
            THEN [limiter |-> checked, res |-> Err("Storage")]
            ELSE IF ~verify_passphrase(passphrase, hash_scroll.val.v.data.s)
            THEN Failed(record_failure(checked, t, overflow_checks))
            ELSE [limiter |-> record_success(checked),
                  res |-> Derived(FileNamespace_read(fs, SaltPath))]
        Checked(c) ==
            IF ~c.res.ok THEN [limiter |-> c.limiter, res |-> Err("RateLimited")]
            ELSE Verified(c.limiter, FileNamespace_read(fs, PassphraseHashPath))
    IN  IF l.poisoned THEN [limiter |-> l, res |-> Err("Panic")]
        ELSE Checked(check_locked(l, t))

-----------------------------------------------------------------------------
(* The vault as a state machine: one client initializing and unlocking,     *)
(* with the clock advancing between the calls.                              *)

MaxVaultOps == 6

Pw == <<"pw">>
WrongPw == <<"wrong">>
Passphrases == {Pw, WrongPw}
Seed == <<"abandon">>
Salt == <<"salt">>
\* seconds the clock advances at a time: within the first lockout, to its
\* end, and past the reset after inactivity
ClockSteps == {BASE_LOCKOUT_SECS \div 2, BASE_LOCKOUT_SECS, RESET_AFTER_SECS + 1}

\* VaultStore::open on an empty directory
VaultInit ==
    /\ files = <<>>
    /\ versions = <<>>
    /\ mem = <<>>
    /\ mounts = <<>>
    /\ threads = <<>>
    /\ anchorLog = {}
    /\ writeLog = <<>>
    /\ ret = [op |-> "open"]
    /\ budget = MaxVaultOps
    /\ NoWatch
    /\ limiter = RateLimiter_new
    /\ now = 0
    /\ session = <<>>

vaultUnused == <<mem, mounts, threads, anchorLog, watchVars, session>>

\* vault.initialize(passphrase, seed)
VaultInitialize(passphrase) ==
    /\ budget > 0
    /\ \E r \in {VaultStore_initialize(files, versions, passphrase, Seed, Salt, Salt)} :
          /\ files' = r.fs
          /\ versions' = r.vc
          /\ ret' = [op |-> "initialize", res |-> r.res]
    /\ budget' = budget - 1
    /\ UNCHANGED <<writeLog, limiter, now>>
    /\ UNCHANGED vaultUnused

\* vault.unlock(passphrase); writeLog keeps the unlock calls: when each was
\* made, with what, and what it returned
VaultUnlock(passphrase, overflow_checks) ==
    /\ budget > 0
    /\ \E r \in {VaultStore_unlock(files, limiter, now, passphrase, overflow_checks)} :
          /\ limiter' = r.limiter
          /\ writeLog' = Append(writeLog, [t |-> now, passphrase |-> passphrase,
                                           res |-> r.res])
          /\ ret' = [op |-> "unlock", res |-> r.res]
    /\ budget' = budget - 1
    /\ UNCHANGED <<files, versions, now>>
    /\ UNCHANGED vaultUnused

\* Time passes
ClockAdvance(secs) ==
    /\ budget > 0
    /\ now' = now + secs
    /\ budget' = budget - 1
    /\ UNCHANGED <<files, versions, writeLog, ret, limiter>>
    /\ UNCHANGED vaultUnused

VaultNext ==
    \/ VaultInitialize(Pw)
    \/ \E passphrase \in Passphrases, overflow_checks \in BOOLEAN :
          VaultUnlock(passphrase, overflow_checks)
    \/ \E secs \in ClockSteps : ClockAdvance(secs)

VaultSpec == VaultInit /\ [][VaultNext]_vars

-----------------------------------------------------------------------------
(* Properties of the vault's rate limiting                                  *)

InvalidPassphrase(call) == call.res = Err("InvalidPassphrase")

\* The unlock calls i-2, i-1 and i, made one after the other, all failed on
\* the passphrase, with no hour of inactivity between them
ThreeFailures(i) ==
    /\ i >= MAX_ATTEMPTS
    /\ \A k \in (i - 2)..i : InvalidPassphrase(writeLog[k])
    /\ \A k \in (i - 1)..i : writeLog[k].t - writeLog[k - 1].t <= RESET_AFTER_SECS

\* Call j was made after call i and before the lockout of call i has expired
DuringLockout(i, j) == i < j /\ writeLog[j].t < writeLog[i].t + BASE_LOCKOUT_SECS

\* C19: after three consecutive failed unlock attempts every unlock call
\* made before the lockout has expired fails with RateLimited, whether its
\* passphrase is the right one or not.
C19_LockoutEnforced ==
    \A i \in 1..Len(writeLog) : \A j \in 1..Len(writeLog) :
        ThreeFailures(i) /\ DuringLockout(i, j) => writeLog[j].res = Err("RateLimited")

\* Three failures, then, later but within the lockout, the right passphrase
\* is turned away
C19_Witness ==
    \E i \in 1..Len(writeLog) : \E j \in 1..Len(writeLog) :
        /\ ThreeFailures(i)
        /\ DuringLockout(i, j)
        /\ writeLog[j].t > writeLog[i].t
        /\ writeLog[j].passphrase = Pw
        /\ writeLog[j].res = Err("RateLimited")

-----------------------------------------------------------------------------
(* The rate limiter as a state machine: unlock attempts that fail one after *)
(* the other, each made once the lockout of the one before has run out.     *)

MaxFailures == 192

LimiterInit ==
    /\ files = <<>>
    /\ versions = <<>>
    /\ mem = <<>>
    /\ mounts = <<>>
    /\ threads = <<>>
    /\ anchorLog = {}
    /\ writeLog = <<>>
    /\ ret = [op |-> "new", n |-> 0, lockout |-> 0]
    /\ budget = 0
    /\ NoWatch
    /\ limiter = RateLimiter_new
    /\ now = 0
    /\ session = <<>>

limiterUnused ==
    <<files, versions, mem, mounts, threads, anchorLog, writeLog, budget, watchVars, session>>

\* A failed unlock: check_locked lets the call through and record_failure
\* counts it.  ret keeps the number of the failure, whether it imposed a
\* lockout, the lockout's length and the length of the lockout before it.
LimiterFail(overflow_checks) ==
    /\ ~limiter.poisoned
    /\ limiter.failed_attempts < MaxFailures
    /\ \E c \in {check_locked(limiter, now)} :
          /\ c.res.ok
          /\ \E r \in {record_failure(c.limiter, now, overflow_checks)} :
                /\ limiter' = r
                /\ ret' = [op |-> "record_failure", n |-> r.failed_attempts,
                           imposed |-> ~r.poisoned /\ r.locked_until.some,
                           lockout |-> IF r.locked_until.some THEN r.locked_until.v - now
                                       ELSE 0,
                           previous |-> ret.lockout]
    /\ UNCHANGED now
    /\ UNCHANGED limiterUnused

\* The lockout runs out
LimiterWait ==
    /\ limiter.locked_until.some
    /\ now < limiter.locked_until.v
    /\ now' = limiter.locked_until.v
    /\ UNCHANGED <<limiter, ret>>
    /\ UNCHANGED limiterUnused

LimiterNext ==
    \/ \E overflow_checks \in BOOLEAN : LimiterFail(overflow_checks)
    \/ LimiterWait

LimiterSpec == LimiterInit /\ [][LimiterNext]_vars

\* C20: for every count n >= 3 of consecutive failed attempts the n-th
\* failure imposes a lockout of at least 60 and at most 1800 seconds, not
\* shorter than the lockout of the failure before it.
C20_LockoutBounds ==
    ret.op = "record_failure" /\ ret.n >= MAX_ATTEMPTS =>
        /\ ret.imposed
        /\ ret.lockout >= BASE_LOCKOUT_SECS
        /\ ret.lockout <= MAX_LOCKOUT_SECS
        /\ ret.lockout >= ret.previous

-----------------------------------------------------------------------------
(* The vault's life cycle (vault/store.rs): get_seed, change_passphrase and *)
(* reset                                                                    *)

\* FileNamespace::delete_all: the _scrolls directory removed and recreated
\* empty
FileNamespace_delete_all(fs) == [q \in {p \in DOMAIN fs : p[1] # ScrollsDir} |-> fs[q]]

\* The loop of reset: every listed path overwritten with null, a failing
\* write ignored
RECURSIVE OverwriteAll(_, _, _)
OverwriteAll(fs, vc, paths) ==
    LET Rest(path, w) == OverwriteAll(w.fs, w.vc, paths \ {path})
        One(path) == Rest(path, FileNamespace_write(fs, vc, path, JNull))
    IN  IF paths = {} THEN [fs |-> fs, vc |-> vc]
        ELSE One(CHOOSE p \in paths : TRUE)

\* VaultStore::reset
VaultStore_reset(fs, vc) ==
    LET Deleted(w) ==
            [fs |-> FileNamespace_delete_all(w.fs), vc |-> <<>>, res |-> Ok(<<>>)]
        Listed(paths) ==
            IF ~paths.ok THEN [fs |-> fs, vc |-> vc, res |-> Err("Storage")]
            ELSE Deleted(OverwriteAll(fs, vc, paths.val))
    IN  Listed(FileNamespace_list(fs, Root))

\* VaultStore::get_seed
VaultStore_get_seed(fs, vault_key) ==
    LET Ciphertext == <<"ciphertext">>
        Opened(sealed) ==
            IF sealed.t # "obj" THEN Err("Serialization")
            ELSE IF Ciphertext \notin DOMAIN sealed.m THEN Err("Serialization")
            ELSE IF sealed.m[Ciphertext].t # "str" THEN Err("Serialization")
            ELSE crypto_unseal(vault_key, sealed.m[Ciphertext].s)
        Stored(scroll) ==
            IF ~scroll.ok THEN Err("Storage")
            ELSE IF ~scroll.val.some THEN Err("VaultNotInitialized")
            ELSE Opened(scroll.val.v.data)
    IN  Stored(FileNamespace_read(fs, SeedPath))

\* VaultStore::change_passphrase at time t
VaultStore_change_passphrase(fs, vc, l, t, current_passphrase, new_passphrase, salt, hash_salt, overflow_checks) ==
    LET Failed(u, res) == [fs |-> fs, vc |-> vc, limiter |-> u.limiter, res |-> res]
        Stored(u, w) == [fs |-> w.fs, vc |-> w.vc, limiter |-> u.limiter, res |-> w.res]
        WithSeed(u, seed) ==
            IF ~seed.ok THEN Failed(u, seed)
            ELSE Stored(u, VaultStore_initialize_internal(fs, vc, new_passphrase, seed.val,
                                                          salt, hash_salt))
        Unlocked(u) ==
            IF ~u.res.ok THEN Failed(u, u.res)
            ELSE WithSeed(u, VaultStore_get_seed(fs, u.res.val))
    IN  Unlocked(VaultStore_unlock(fs, l, t, current_passphrase, overflow_checks))

-----------------------------------------------------------------------------
(* The vault's life cycle as a state machine: one client that initializes,  *)
(* unlocks, changes the passphrase and resets, the clock advancing between  *)
(* the calls.                                                               *)

MaxLifeOps == 6

NewPw == <<"pw2">>
NewSeed == <<"zoo">>
LifePassphrases == {Pw, NewPw}
Credentials == {<<Pw, Seed>>, <<NewPw, NewSeed>>}

VaultRecords == {PassphraseHashPath, SaltPath, SeedPath}

\* What the vault's namespace returns for each of the three records
RecordsOf(fs) == [path \in VaultRecords |-> FileNamespace_read(fs, path)]

\* The vault holds a non-null /passphrase-hash
HoldsHash(fs) ==
    LET Held(scroll) == scroll.ok /\ scroll.val.some /\ scroll.val.v.data # JNull
    IN  Held(FileNamespace_read(fs, PassphraseHashPath))

LifeInit ==
    /\ files = <<>>
    /\ versions = <<>>
    /\ mem = <<>>
    /\ mounts = <<>>
    /\ threads = <<>>
    /\ anchorLog = {}
    /\ writeLog = <<>>
    /\ ret = [op |-> "open"]
    /\ budget = MaxLifeOps
    /\ NoWatch
    /\ limiter = RateLimiter_new
    /\ now = 0
    /\ session = <<>>

\* vault.initialize(passphrase, seed_phrase).  ret keeps the call, whether
\* the vault held a passphrase hash before it, whether it left the three
\* records as they were and whether it follows a reset that succeeded.
LifeInitialize(passphrase, seed_phrase) ==
    /\ budget > 0
    /\ \E r \in {VaultStore_initialize(files, versions, passphrase, seed_phrase, Salt, Salt)} :
          /\ files' = r.fs
          /\ versions' = r.vc
          /\ ret' = [op |-> "initialize", res |-> r.res,
                     passphrase |-> passphrase, seed_phrase |-> seed_phrase,
                     held |-> HoldsHash(files),
                     kept |-> RecordsOf(r.fs) = RecordsOf(files),
                     after_reset |-> ret.op = "reset" /\ ret.res.ok]
    /\ budget' = budget - 1
    /\ UNCHANGED <<writeLog, limiter, now>>
    /\ UNCHANGED vaultUnused

\* vault.unlock(passphrase)
LifeUnlock(passphrase, overflow_checks) ==
    /\ budget > 0
    /\ \E r \in {VaultStore_unlock(files, limiter, now, passphrase, overflow_checks)} :
          /\ limiter' = r.limiter
          /\ ret' = [op |-> "unlock", res |-> r.res]
    /\ budget' = budget - 1
    /\ UNCHANGED <<files, versions, writeLog, now>>
    /\ UNCHANGED vaultUnused

\* vault.change_passphrase(current, new)
LifeChangePassphrase(current_passphrase, new_passphrase, overflow_checks) ==
    /\ budget > 0
    /\ \E r \in {VaultStore_change_passphrase(files, versions, limiter, now,
                                              current_passphrase, new_passphrase,
                                              Salt, Salt, overflow_checks)} :
          /\ files' = r.fs
          /\ versions' = r.vc
          /\ limiter' = r.limiter
          /\ ret' = [op |-> "change_passphrase", res |-> r.res]
    /\ budget' = budget - 1
    /\ UNCHANGED <<writeLog, now>>
    /\ UNCHANGED vaultUnused

\* vault.reset()
LifeReset ==
    /\ budget > 0
    /\ \E r \in {VaultStore_reset(files, versions)} :
          /\ files' = r.fs
          /\ versions' = r.vc
          /\ ret' = [op |-> "reset", res |-> r.res, held |-> HoldsHash(files)]
    /\ budget' = budget - 1
    /\ UNCHANGED <<writeLog, limiter, now>>
    /\ UNCHANGED vaultUnused

LifeNext ==
    \/ \E c \in Credentials : LifeInitialize(c[1], c[2])
    \/ \E passphrase \in LifePassphrases, overflow_checks \in BOOLEAN :
          LifeUnlock(passphrase, overflow_checks)
    \/ \E current_passphrase \in LifePassphrases, new_passphrase \in LifePassphrases,
          overflow_checks \in BOOLEAN :
          LifeChangePassphrase(current_passphrase, new_passphrase, overflow_checks)
    \/ LifeReset
    \/ ClockAdvance(BASE_LOCKOUT_SECS)

VaultLifeSpec == LifeInit /\ [][LifeNext]_vars

-----------------------------------------------------------------------------
(* Properties of the vault's life cycle                                     *)

\* C21: initialize on a vault that holds a non-null /passphrase-hash fails
\* with AlreadyInitialized and leaves /passphrase-hash, /salt and /seed as
\* they were, so that an initialize call never replaces a stored seed.
C21_ReinitializationBlocked ==
    ret.op = "initialize" /\ ret.held =>
        ret.res = Err("AlreadyInitialized") /\ ret.kept

\* initialize with another passphrase and another seed on an initialized
\* vault, turned away
C21_Witness ==
    /\ ret.op = "initialize"
    /\ ret.held
    /\ ret.passphrase = NewPw
    /\ ret.res = Err("AlreadyInitialized")
    /\ VaultStore_get_seed(files, derive_key(Pw, Salt)) = Ok(Seed)

\* unlock(passphrase) made now gives access to seed_phrase
GivesAccess(passphrase, seed_phrase) ==
    LET Unlocked(u) == u.res.ok /\ VaultStore_get_seed(files, u.res.val) = Ok(seed_phrase)
    IN  Unlocked(VaultStore_unlock(files, limiter, now, passphrase, FALSE))

\* C22: after reset() has returned successfully is_initialized() is false
\* and none of the vault's records is readable; the initialize(pw2, seed2)
\* that follows succeeds, and after it unlock(pw2) gives access to seed2
\* while no other passphrase unlocks.
C22_ResetThenInitialize ==
    /\ ret.op = "reset" /\ ret.res.ok =>
          /\ VaultStore_is_initialized(files) = Ok(FALSE)
          /\ \A path \in VaultRecords : FileNamespace_read(files, path) = Ok(NoneV)
    /\ ret.op = "initialize" /\ ret.after_reset =>
          /\ ret.res.ok
          /\ GivesAccess(ret.passphrase, ret.seed_phrase)
          /\ \A passphrase \in LifePassphrases \ {ret.passphrase} :
                ~VaultStore_unlock(files, limiter, now, passphrase, FALSE).res.ok

\* The same with the vault's rate limiter out of the picture: the reset and
\* the initialize are made while no lockout is in force
C22_ResetThenInitializeUnlocked ==
    check_locked(limiter, now).res.ok => C22_ResetThenInitialize

-----------------------------------------------------------------------------
(* SessionManager (vault/session.rs): the vault key held while a session    *)
(* is active                                                                *)

\* SessionManager::default's timeout
DEFAULT_TIMEOUT_SECS == 300

\* SessionManager::new
SessionManager_new(timeout_secs) ==
    [vault_key |-> NoneV, created_at |-> NoneV, last_activity |-> NoneV,
     timeout_secs |-> timeout_secs]

\* SessionManager::start at time t
SessionManager_start(s, t, key) ==
    [s EXCEPT !.vault_key = Some(key), !.created_at = Some(t), !.last_activity = Some(t)]

\* SessionManager::is_active at time t
SessionManager_is_active(s, t) ==
    IF ~s.vault_key.some THEN FALSE
    ELSE IF s.last_activity.some THEN t - s.last_activity.v < s.timeout_secs
    ELSE FALSE

\* SessionManager::touch at time t
SessionManager_touch(s, t) ==
    IF s.vault_key.some THEN [s EXCEPT !.last_activity = Some(t)] ELSE s

\* SessionManager::end
SessionManager_end(s) ==
    [s EXCEPT !.vault_key = NoneV, !.created_at = NoneV, !.last_activity = NoneV]

\* SessionManager::get_key at time t: the session after the call and the key
\* returned
SessionManager_get_key(s, t) ==
    LET Touched(touched) == [session |-> touched, res |-> touched.vault_key]
    IN  IF SessionManager_is_active(s, t) THEN Touched(SessionManager_touch(s, t))
        ELSE [session |-> SessionManager_end(s), res |-> NoneV]

-----------------------------------------------------------------------------
(* A session as a state machine: one owner of the SessionManager calling    *)
(* start, touch, get_key and end while the clock advances.                  *)

MaxSessionOps == 6

VaultKey == <<"argon2", "pw", "salt">>
\* seconds the clock advances at a time: a part of the timeout and all of it
SessionClockSteps == {DEFAULT_TIMEOUT_SECS \div 3, DEFAULT_TIMEOUT_SECS}

SessionInit ==
    /\ files = <<>>
    /\ versions = <<>>
    /\ mem = <<>>
    /\ mounts = <<>>
    /\ threads = <<>>
    /\ anchorLog = {}
    /\ writeLog = <<>>
    /\ ret = [op |-> "new", res |-> NoneV, expired |-> FALSE, ended |-> FALSE,
              revived |-> FALSE]
    /\ budget = MaxSessionOps
    /\ NoWatch
    /\ limiter = <<>>
    /\ now = 0
    /\ session = SessionManager_new(DEFAULT_TIMEOUT_SECS)

sessionUnused ==
    <<files, versions, mem, mounts, threads, anchorLog, writeLog, watchVars, limiter>>

\* The session has been started and, by now, a full timeout has passed
\* since the last activity the manager recorded
Lapsed == session.last_activity.some /\ now - session.last_activity.v >= session.timeout_secs

\* session.start(key).  ret keeps, besides the call and its result, three
\* facts about the session since its start: whether it has been inactive
\* for a full timeout, whether touch was called after that, whether end was
\* called
SessionStart ==
    /\ budget > 0
    /\ session' = SessionManager_start(session, now, VaultKey)
    /\ ret' = [op |-> "start", res |-> NoneV, expired |-> FALSE, ended |-> FALSE,
               revived |-> FALSE]
    /\ budget' = budget - 1
    /\ UNCHANGED now
    /\ UNCHANGED sessionUnused

\* session.touch()
SessionTouch ==
    /\ budget > 0
    /\ session' = SessionManager_touch(session, now)
    /\ ret' = [op |-> "touch", res |-> NoneV, expired |-> ret.expired \/ Lapsed,
               ended |-> ret.ended, revived |-> ret.revived \/ ret.expired \/ Lapsed]
    /\ budget' = budget - 1
    /\ UNCHANGED now
    /\ UNCHANGED sessionUnused

\* session.get_key()
SessionGetKey ==
    /\ budget > 0
    /\ \E r \in {SessionManager_get_key(session, now)} :
          /\ session' = r.session
          /\ ret' = [op |-> "get_key", res |-> r.res, expired |-> ret.expired \/ Lapsed,
                     ended |-> ret.ended, revived |-> ret.revived]
    /\ budget' = budget - 1
    /\ UNCHANGED now
    /\ UNCHANGED sessionUnused

\* session.end()
SessionEnd ==
    /\ budget > 0
    /\ session' = SessionManager_end(session)
    /\ ret' = [op |-> "end", res |-> NoneV, expired |-> ret.expired \/ Lapsed,
               ended |-> TRUE, revived |-> ret.revived]
    /\ budget' = budget - 1
    /\ UNCHANGED now
    /\ UNCHANGED sessionUnused

\* Time passes
SessionWait(secs) ==
    /\ budget > 0
    /\ now' = now + secs
    /\ budget' = budget - 1
    /\ UNCHANGED <<session, ret>>
    /\ UNCHANGED sessionUnused

SessionNext ==
    \/ SessionStart
    \/ SessionTouch
    \/ SessionGetKey
    \/ SessionEnd
    \/ \E secs \in SessionClockSteps : SessionWait(secs)

SessionSpec == SessionInit /\ [][SessionNext]_vars

-----------------------------------------------------------------------------
(* Properties of the session                                                *)

\* C23: get_key returns the key only to a session that has not been
\* inactive for the full timeout since it was started and that has not been
\* ended; after end() the key is gone from the manager.
C23_ExpiredForGood ==
    /\ ret.op = "get_key" /\ ret.res.some => ~ret.expired /\ ~ret.ended
    /\ ret.ended => ~session.vault_key.some

\* The same for sessions on which touch is not called once they have been
\* inactive for the full timeout
C23_ExpiredUnlessTouched ==
    /\ ret.op = "get_key" /\ ret.res.some => (ret.expired => ret.revived) /\ ~ret.ended
    /\ ret.ended => ~session.vault_key.some

-----------------------------------------------------------------------------
(* The anchored restore of a document (store.rs restore)                    *)

\* On a fresh store: write(k, d1); anchor(k); write(k, d2) with another
\* content; restore(k, that anchor), which succeeded, and nothing else
AnchoredRestore(k) ==
    LET L == writeLog[k] IN
    /\ budget = MaxOps - 4
    /\ ret.op = "restore" /\ ret.key = k /\ ret.res.ok
    /\ Len(L) = 3
    /\ \A i \in 1..3 : IsWrite(L[i])
    /\ L[1].data # L[2].data
    /\ \E a \in anchorLog : a.key = k /\ a.id = ret.id /\ a.seq = L[1].seq

\* The number of patches history(k) returns is n
HistoryHas(k, n) ==
    LET Counted(patches) == patches.ok /\ Len(patches.val) = n
    IN  Counted(Store_history(files, k))

\* C26: after write(/doc, d1); anchor(/doc, "beginner"); write(/doc, d2);
\* restore(/doc, that anchor) on a fresh store the restore has gone through
\* the write pipeline and created a new patch, read returns d1, and
\* history("/doc") contains three patches: one per write and one for the
\* restore.
C26_RestoreAddsPatch ==
    \A k \in StoreKeys :
        AnchoredRestore(k) =>
            /\ HistoryHas(k, 3)
            /\ writeLog[k][3].seq = 3
            /\ writeLog[k][3].parent = Some(writeLog[k][2].hash)
            /\ writeLog[k][3].data = writeLog[k][1].data
            /\ Store_read(files, k).val.v.data = writeLog[k][1].data

\* C26 as the specification words it: history("/doc") contains four patches
C26_FourPatches ==
    \A k \in StoreKeys : AnchoredRestore(k) => HistoryHas(k, 4)

C26_Witness == \E k \in StoreKeys : AnchoredRestore(k) /\ HistoryHas(k, 3)

-----------------------------------------------------------------------------
(* Compaction (store.rs compact, auto_retention_threshold): the store with  *)
(* writes, anchors, deletions and compactions, started either empty or with *)
(* a history longer than the default retention.                             *)

MaxCompactOps == 5
\* operations on the store that starts with the long history
MaxLongOps == 3

\* The store after n >= 1 writes to KeyA of D1 and D2 in turn, as
\* write_scroll leaves it: the sealed scroll file, the n patches, the version
\* cache and the log of the writes
WrittenTimes(n) ==
    LET Versioned(i) == StampedScroll(ScrollNew(KeyA, IF i % 2 = 1 THEN D1 ELSE D2), i)
        Patch(i) ==
            StoredPatch(KeyA, IF i = 1 THEN NoneV ELSE Some(Versioned(i - 1)), Versioned(i), i)
        Sealed == ScrollFile(VersionedScroll(KeyA, seal(StoreKey, Versioned(n)), n - 1))
        Event(i, patch) ==
            [e |-> "write", seq |-> i, fver |-> i, parent |-> patch.parent,
             hash |-> patch.hash, data |-> Versioned(i).data, type_ |-> Versioned(i).type_]
        OnDisk(f) ==
            IF f = scroll_path_to_fs(KeyA) THEN Sealed
            ELSE PatchFile(Patch(CHOOSE i \in 1..n : PatchPath(KeyA, i) = f))
    IN  [fs  |-> [f \in {scroll_path_to_fs(KeyA)} \cup {PatchPath(KeyA, i) : i \in 1..n}
                    |-> OnDisk(f)],
         vc  |-> set_version(<<>>, KeyA, n),
         log |-> [k \in StoreKeys |->
                    IF k = KeyA THEN [i \in 1..n |-> Event(i, Patch(i))] ELSE <<>>]]

\* The store just created
Fresh == [fs |-> <<>>, vc |-> <<>>, log |-> [k \in StoreKeys |-> <<>>]]

CompactInit ==
    /\ \E s \in {Fresh, WrittenTimes(DefaultRetention + 2)} :
          /\ files = s.fs
          /\ versions = s.vc
          /\ writeLog = s.log
          /\ budget = IF s = Fresh THEN MaxCompactOps ELSE MaxLongOps
    /\ mem = <<>>
    /\ mounts = <<>>
    /\ threads = <<>>
    /\ anchorLog = {}
    /\ ret = [op |-> "open"]
    /\ NoWatch
    /\ NoVault

CompactNext ==
    \/ \E d \in WriteData : Write(KeyA, d)
    \/ Write(KeyB, D1)
    \/ Anchor(KeyA, 0)
    \/ Delete(KeyA)
    \/ \E k \in StoreKeys, keep \in KeepSince : Compact(k, keep)

CompactSpec == CompactInit /\ [][CompactNext]_vars

\* The patch files on disk, of every key
PatchFiles(fs) == {f \in DOMAIN fs : fs[f].kind = "patch"}

\* The sequence numbers of the patches of k on disk
PatchSeqs(fs, k) ==
    LET Seqs(patches) ==
            IF patches.ok THEN {patches.val[i].seq : i \in 1..Len(patches.val)} ELSE {}
    IN  Seqs(Store_history(fs, k))

\* The threshold of compact(k, keep): the caller's argument when there is
\* one, otherwise the smallest seq at which an anchor of k was taken when k
\* has anchors, otherwise the newest seq minus the default retention
RetentionThreshold(fs, log, k, keep) ==
    LET Taken == {a.seq : a \in {b \in log : b.key = k}}
    IN  IF keep.some THEN keep.v
        ELSE IF Taken # {} THEN SetMin(Taken)
        ELSE SaturatingSub(SetMax({0} \cup PatchSeqs(fs, k)), DefaultRetention)

\* The step is a compact call that left exactly the patch files it should
\* have and returned the number of those it deleted
CompactedTo(threshold) ==
    \E doomed \in {{PatchPath(ret'.key, seq) :
                        seq \in {n \in PatchSeqs(files, ret'.key) : n < threshold}}} :
        /\ PatchFiles(files') = PatchFiles(files) \ doomed
        /\ ret'.res.val = Cardinality(PatchFiles(files) \ PatchFiles(files'))

IsCompactStep == budget' = budget - 1 /\ ret'.op = "compact" /\ ret'.res.ok

\* C24: compact(key, t) deletes exactly the patches of key with seq < T and
\* no other patch, and returns the number deleted; T is the argument when
\* given, otherwise the smallest seq at which an anchor of key was taken,
\* otherwise the newest seq minus 100.
C24_CompactStep ==
    IsCompactStep =>
        \E threshold \in {RetentionThreshold(files, anchorLog, ret'.key, ret'.keep)} :
            CompactedTo(threshold)

C24_LongHistoryCompacted ==
    /\ ret.op = "compact"
    /\ ~ret.keep.some
    /\ ret.res.ok
    /\ ret.res.val >= 1
    /\ \A a \in anchorLog : a.key # ret.key

-----------------------------------------------------------------------------
(* Pruning (store.rs prune): the rolling window over the scrolls under a    *)
(* prefix.  The scroll files of this section carry, in the field at, the    *)
(* updated_at the file backend stamped them with (Unix milliseconds).       *)

\* The file of the scroll at path, stamped with the time of the write
StampedAt(fs, path, t) ==
    LET Stamp(f) ==
            IF IsFile(fs, f) /\ fs[f].kind = "scroll"
            THEN FsPut(fs, f, [kind |-> "scroll", v |-> fs[f].v, at |-> t])
            ELSE fs
    IN  Stamp(scroll_path_to_fs(path))

\* scroll.metadata.updated_at of the file at path, as iso_to_unix_millis
\* reads it
UpdatedAt(fs, path) ==
    LET Of(file) == IF "at" \in DOMAIN file THEN file.at ELSE 0
    IN  Of(fs[scroll_path_to_fs(path)])

\* sort_by_key(|(_, ts)| *ts): a stable sort of (path, timestamp) pairs
RECURSIVE SortByTime(_)
SortByTime(pairs) ==
    LET First == CHOOSE i \in 1..Len(pairs) :
                    /\ \A j \in 1..Len(pairs) : pairs[i][2] <= pairs[j][2]
                    /\ \A j \in 1..(i - 1) : pairs[j][2] > pairs[i][2]
        Without(i) == SubSeq(pairs, 1, i - 1) \o SubSeq(pairs, i + 1, Len(pairs))
    IN  IF pairs = <<>> THEN <<>>
        ELSE <<pairs[First]>> \o SortByTime(Without(First))

\* The loop of prune over the oldest scrolls: delete each, count the
\* deletions that returned Ok
RECURSIVE DeleteOldest(_, _, _)
DeleteOldest(fs, pairs, removed) ==
    LET After(d) ==
            DeleteOldest(d.fs, Tail(pairs), IF d.res.ok THEN removed + 1 ELSE removed)
    IN  IF pairs = <<>> THEN [fs |-> fs, res |-> Ok(removed)]
        ELSE After(Store_delete(fs, Head(pairs)[1]))

\* Store::prune; paths is what inner.list(prefix) returned, in the order of
\* the directory walk
Store_prune(fs, paths, keep_count) ==
    LET Readable(path) ==
            LET Found(scroll) == scroll.ok /\ scroll.val.some
            IN  Found(FileNamespace_read(fs, path))
        IsReadable(pair) == Readable(pair[1])
        Oldest(sorted) ==
            DeleteOldest(fs, SubSeq(sorted, 1, SaturatingSub(Len(sorted), keep_count)), 0)
        Timed(scrolls_with_time) == Oldest(SortByTime(scrolls_with_time))
    IN  IF Len(paths) <= keep_count THEN [fs |-> fs, res |-> Ok(0)]
        ELSE Timed(SelectSeq([i \in 1..Len(paths) |-> <<paths[i], UpdatedAt(fs, paths[i])>>],
                             IsReadable))

-----------------------------------------------------------------------------
(* The store with writes, deletions and prunings: one client, the clock of  *)
(* the timestamps advancing or not between two writes.                      *)

MaxPruneOps == 4

PruneKeys == {Root, KeyA, KeyB}
PrunePrefixes == {Root, KeyA}
KeepCounts == {0, 1}

\* The orders in which a directory walk can return the paths of S
Orders(S) ==
    {order \in [1..Cardinality(S) -> S] :
        \A i \in 1..Cardinality(S) : \A j \in 1..Cardinality(S) : order[i] = order[j] => i = j}

PruneInit ==
    /\ files = <<>>
    /\ versions = <<>>
    /\ mem = <<>>
    /\ mounts = <<>>
    /\ threads = <<>>
    /\ anchorLog = {}
    /\ writeLog = [k \in PruneKeys |-> <<>>]
    /\ ret = [op |-> "open"]
    /\ budget = MaxPruneOps
    /\ NoWatch
    /\ limiter = <<>>
    /\ now = 0
    /\ session = <<>>

pruneUnused == <<mem, mounts, threads, anchorLog, watchVars, limiter, session>>

\* store.write(path, data) at time now; the clock advances by tick
\* milliseconds before the next call
PruneWrite(k, d, tick) ==
    /\ budget > 0
    /\ \E r \in {Store_write(files, versions, k, d)} :
          /\ files' = IF r.res.ok THEN StampedAt(r.fs, k, now) ELSE r.fs
          /\ versions' = r.vc
          /\ writeLog' = Logged(writeLog, k, r)
          /\ ret' = [op |-> "write", key |-> k, res |-> r.res]
    /\ now' = now + tick
    /\ budget' = budget - 1
    /\ UNCHANGED pruneUnused

\* The log with a deletion noted for each key whose scroll file is gone
WithDeletions(log, before, after) ==
    [k \in DOMAIN log |->
        IF IsFile(before, scroll_path_to_fs(k)) /\ ~IsFile(after, scroll_path_to_fs(k))
        THEN Append(log[k], [e |-> "delete"])
        ELSE log[k]]

\* store.delete(path)
PruneDelete(k) ==
    /\ budget > 0
    /\ \E r \in {Store_delete(files, k)} :
          /\ files' = r.fs
          /\ writeLog' = WithDeletions(writeLog, files, r.fs)
          /\ ret' = [op |-> "delete", key |-> k, res |-> r.res]
    /\ budget' = budget - 1
    /\ UNCHANGED <<versions, now>>
    /\ UNCHANGED pruneUnused

\* store.prune(prefix, keep_count); ret keeps what list(prefix) returned
\* before the call and the timestamp of each of those scrolls
Prune(prefix, keep_count) ==
    /\ budget > 0
    /\ \E listed \in {FileNamespace_list(files, prefix)} :
          /\ listed.ok
          /\ \E order \in Orders(listed.val) :
                \E r \in {Store_prune(files, order, keep_count)} :
                    /\ files' = r.fs
                    /\ writeLog' = WithDeletions(writeLog, files, r.fs)
                    /\ ret' = [op |-> "prune", prefix |-> prefix, keep_count |-> keep_count,
                               listed |-> listed.val,
                               times |-> [path \in listed.val |-> UpdatedAt(files, path)],
                               res |-> r.res]
    /\ budget' = budget - 1
    /\ UNCHANGED <<versions, now>>
    /\ UNCHANGED pruneUnused

PruneNext ==
    \/ \E k \in PruneKeys, d \in WriteData, tick \in {0, 1} : PruneWrite(k, d, tick)
    \/ \E k \in PruneKeys : PruneDelete(k)
    \/ \E prefix \in PrunePrefixes, keep_count \in KeepCounts : Prune(prefix, keep_count)

PruneSpec == PruneInit /\ [][PruneNext]_vars

-----------------------------------------------------------------------------
(* Properties of pruning                                                    *)

\* The keys list(prefix) returns now
ListedNow(prefix) ==
    LET Keys(listed) == IF listed.ok THEN listed.val ELSE {}
    IN  Keys(FileNamespace_list(files, prefix))

\* C25: after prune(prefix, n) has returned, list(prefix) contains at most n
\* keys, for every prefix, "/" included, and every set of stored keys, the
\* root key included.
C25_PruneKeepsAtMost ==
    ret.op = "prune" /\ ret.res.ok => Cardinality(ListedNow(ret.prefix)) <= ret.keep_count

\* The same when the root key is not among the keys listed, and then the
\* keys deleted are the oldest: none is newer than a key that was kept
C25_PruneKeepsAtMostBelowRoot ==
    ret.op = "prune" /\ ret.res.ok /\ Root \notin ret.listed =>
        /\ Cardinality(ListedNow(ret.prefix)) <= ret.keep_count
        /\ ListedNow(ret.prefix) \subseteq ret.listed
        /\ ret.res.val = Cardinality(ret.listed \ ListedNow(ret.prefix))
        /\ \A gone \in ret.listed \ ListedNow(ret.prefix) : \A kept \in ListedNow(ret.prefix) :
              ret.times[gone] <= ret.times[kept]

\* prune removed scrolls and kept one
C25_PrunedSome ==
    /\ ret.op = "prune"
    /\ ret.res.ok
    /\ ret.res.val >= 1
    /\ ret.keep_count = 1
    /\ Cardinality(ListedNow(ret.prefix)) = 1

-----------------------------------------------------------------------------
(* WalletReactor's watch system (wallet_spark/reactor.rs)                   *)

\* The event bus capacity (256 in the source), scaled
EVENT_BUS_CAPACITY == 2

\* The reactor's Watcher: a pattern and the sender of its channel
ReactorWatcher(pattern, sender) == [pattern |-> pattern, tx |-> sender]

\* WalletReactor::dispatch: watchers.retain over the table ws, the channels
\* chs taking what try_send puts into them
RECURSIVE WalletReactor_dispatch(_, _, _)
WalletReactor_dispatch(ws, chs, scroll) ==
    LET Kept(w, rest) == [ws |-> <<w>> \o rest.ws, chs |-> rest.chs]
        Sent(w, r) ==
            IF r.ok
            THEN Kept(w, WalletReactor_dispatch(Tail(ws), [chs EXCEPT ![w.tx] = r.ch], scroll))
            ELSE WalletReactor_dispatch(Tail(ws), chs, scroll)
        Retain(w) ==
            IF path_matches(scroll.key, w.pattern) THEN Sent(w, try_send(chs[w.tx], scroll))
            ELSE Kept(w, WalletReactor_dispatch(Tail(ws), chs, scroll))
    IN  IF ws = <<>> THEN [ws |-> <<>>, chs |-> chs] ELSE Retain(Head(ws))

-----------------------------------------------------------------------------
(* The reactor as a state machine: subscribers registering, receiving and   *)
(* dropping their receivers while scrolls are emitted.                      *)

MaxReactorOps == 5

Reactor == "reactor"
ReactorKeys == {KeyA, KeyB}
ReactorPatterns == {KeyA, KeyA \o <<"/", "*">>}

ReactorInit ==
    /\ files = <<>>
    /\ versions = <<>>
    /\ mem = <<>>
    /\ mounts = <<>>
    /\ threads = <<>>
    /\ anchorLog = {}
    /\ writeLog = <<>>
    /\ ret = [op |-> "new", overflowed |-> {}]
    /\ budget = MaxReactorOps
    /\ watchers = [b \in {Reactor} |-> <<>>]
    /\ chans = <<>>
    /\ closed = <<>>
    /\ forwarders = <<>>
    /\ NoVault

reactorUnused ==
    <<files, versions, mem, mounts, threads, anchorLog, writeLog, closed, forwarders, vaultVars>>

\* reactor.watch(pattern)
ReactorWatch(pattern) ==
    /\ budget > 0
    /\ chans' = Append(chans, channel(EVENT_BUS_CAPACITY, FALSE))
    /\ watchers' = [watchers EXCEPT
                       ![Reactor] = Append(@, ReactorWatcher(pattern, Len(chans) + 1))]
    /\ ret' = [op |-> "watch", overflowed |-> ret.overflowed]
    /\ budget' = budget - 1
    /\ UNCHANGED reactorUnused

\* The channels of subscribers who hold their receiver and whose channel is
\* full when a scroll with this key is dispatched
Overflowing(key) ==
    {watchers[Reactor][i].tx : i \in {j \in 1..Len(watchers[Reactor]) :
        /\ path_matches(key, watchers[Reactor][j].pattern)
        /\ chans[watchers[Reactor][j].tx].rx = "held"
        /\ Len(chans[watchers[Reactor][j].tx].buf) >= EVENT_BUS_CAPACITY}}

\* reactor.emit(scroll): the scroll is dispatched to the watchers.  ret
\* keeps the channels that were full at some dispatch so far.
ReactorEmit(key) ==
    /\ budget > 0
    /\ \E r \in {WalletReactor_dispatch(watchers[Reactor], chans, ScrollNew(key, D1))} :
          /\ watchers' = [watchers EXCEPT ![Reactor] = r.ws]
          /\ chans' = r.chs
    /\ ret' = [op |-> "emit", key |-> key, overflowed |-> ret.overflowed \cup Overflowing(key)]
    /\ budget' = budget - 1
    /\ UNCHANGED reactorUnused

\* The subscriber takes a scroll from its receiver (try_recv)
ReactorRecv(c) ==
    /\ chans[c].rx = "held"
    /\ chans[c].buf # <<>>
    /\ chans' = [chans EXCEPT ![c].buf = Tail(@)]
    /\ ret' = [op |-> "recv", chan |-> c, res |-> Some(Head(chans[c].buf)),
               overflowed |-> ret.overflowed]
    /\ UNCHANGED <<watchers, budget>>
    /\ UNCHANGED reactorUnused

\* The subscriber drops its receiver
ReactorDrop(c) ==
    /\ chans[c].rx = "held"
    /\ chans' = [chans EXCEPT ![c] = DropRx(@)]
    /\ ret' = [op |-> "drop", chan |-> c, overflowed |-> ret.overflowed]
    /\ UNCHANGED <<watchers, budget>>
    /\ UNCHANGED reactorUnused

ReactorNext ==
    \/ \E pattern \in ReactorPatterns : ReactorWatch(pattern)
    \/ \E key \in ReactorKeys : ReactorEmit(key)
    \/ \E c \in DOMAIN chans : ReactorRecv(c)
    \/ \E c \in DOMAIN chans : ReactorDrop(c)

ReactorSpec == ReactorInit /\ [][ReactorNext]_vars

-----------------------------------------------------------------------------
(* Properties of the reactor's watchers                                     *)

Registered(c) == \E i \in 1..Len(watchers[Reactor]) : watchers[Reactor][i].tx = c

\* After a dispatch no watcher that matched the scroll belongs to a
\* subscriber who has dropped the receiver
DroppedRemoved ==
    ret.op = "emit" =>
        \A i \in 1..Len(watchers[Reactor]) :
            path_matches(ret.key, watchers[Reactor][i].pattern)
                => chans[watchers[Reactor][i].tx].rx = "held"

\* C27: the reactor removes a watcher on dispatch exactly when the
\* subscriber has dropped the receiver: a subscriber that holds its receiver
\* stays registered, also when its channel was full at some dispatch, and a
\* matching dispatch removes the watcher of a subscriber who has dropped it.
C27_RemovedOnlyWhenDropped ==
    /\ \A c \in DOMAIN chans : chans[c].rx = "held" => Registered(c)
    /\ DroppedRemoved

\* The same for subscribers whose channel was never full at a dispatch
C27_RemovedWhenDroppedOrFull ==
    /\ \A c \in DOMAIN chans :
          chans[c].rx = "held" /\ c \notin ret.overflowed => Registered(c)
    /\ DroppedRemoved

\* A subscriber's channel was full at a dispatch
C27_ChannelWasFull == ret.overflowed # {}

-----------------------------------------------------------------------------
(* Sealed scrolls (nine_s/sealed.rs)                                        *)

MAX_SEALED_SIZE == 65536
SEALED_VERSION == 1

\* default_key: the fixed public key of envelopes without a password
default_key == <<"beescroll:no-password">>

\* serde_json::to_string(self) and serde_json::from_str for a Scroll: the
\* text is one token per scroll and parses back to the scroll it was made
\* from; its length in bytes is that of the key, the type and the JSON of
\* the data
Scroll_to_json(scroll) == <<[json |-> scroll]>>
Scroll_json_len(scroll) == Len(scroll.key) + 1 + Len(to_string(scroll.data))
Scroll_from_json(text) ==
    IF Len(text) = 1 THEN Ok(text[1].json) ELSE Err("InvalidData")

\* Scroll::seal that takes every password as an empty one
Scroll_seal_unprotected(scroll, password, salt) ==
    [ok |-> TRUE,
     val |-> [version |-> SEALED_VERSION,
              ciphertext |-> crypto_seal(default_key, Scroll_to_json(scroll)),
              salt |-> NoneV,
              has_password |-> FALSE,
              scroll_type |-> Some(scroll.type_)]]

\* Scroll::seal; password is an Option, salt the random salt of the call.
\* The nonce is inside crypto_seal and sealed_at is not modelled.
Scroll_seal(scroll, password, salt) ==
    LET protected == password.some /\ password.v # <<>>
        Sealed(key, salt_used) ==
            Ok([version |-> SEALED_VERSION,
                ciphertext |-> crypto_seal(key, Scroll_to_json(scroll)),
                salt |-> salt_used,
                has_password |-> protected,
                scroll_type |-> Some(scroll.type_)])
    IN  IF Scroll_json_len(scroll) > MAX_SEALED_SIZE THEN Err("InvalidData")
        ELSE IF protected THEN Sealed(derive_key(password.v, salt), Some(salt))
        ELSE Sealed(default_key, NoneV)

\* SealedScroll::unseal
SealedScroll_unseal(sealed, password) ==
    LET Parsed(plaintext) ==
            IF plaintext.ok THEN Scroll_from_json(plaintext.val) ELSE plaintext
        Opened(key) == Parsed(crypto_unseal(key, sealed.ciphertext))
    IN  IF sealed.version # SEALED_VERSION THEN Err("InvalidData")
        ELSE IF sealed.has_password
        THEN IF ~password.some THEN Err("DecryptionFailed")
             ELSE IF ~sealed.salt.some THEN Err("InvalidData")
             ELSE Opened(derive_key(password.v, sealed.salt.v))
        ELSE Opened(default_key)

-----------------------------------------------------------------------------
(* Sealing and unsealing as a state machine: a scroll is sealed under some  *)
(* password and the envelope is then opened with every password.            *)

MaxSealOps == 3

SealScrolls == {ScrollNew(k, d) : k \in {KeyA, KeyB}, d \in WriteData}
SealPasswords == {NoneV, Some(<<>>), Some(Pw), Some(WrongPw)}
SealSalts == {Salt, <<"salt2">>}

SealInit ==
    /\ files = <<>>
    /\ versions = <<>>
    /\ mem = <<>>
    /\ mounts = <<>>
    /\ threads = <<>>
    /\ anchorLog = {}
    /\ writeLog = <<>>
    /\ ret = [op |-> "new"]
    /\ budget = MaxSealOps
    /\ NoWatch
    /\ NoVault

sealUnused ==
    <<files, versions, mem, mounts, threads, anchorLog, writeLog, watchVars, vaultVars>>

\* scroll.seal(password)
Seal(scroll, password, salt) ==
    /\ budget > 0
    /\ ret' = [op |-> "seal", scroll |-> scroll, password |-> password,
               sealed |-> Scroll_seal(scroll, password, salt)]
    /\ budget' = budget - 1
    /\ UNCHANGED sealUnused

\* sealed.unseal(password) on the envelope made last
Unseal(password) ==
    /\ budget > 0
    /\ ret.op \in {"seal", "unseal"}
    /\ ret.sealed.ok
    /\ ret' = [op |-> "unseal", scroll |-> ret.scroll, password |-> ret.password,
               sealed |-> ret.sealed, with |-> password,
               res |-> SealedScroll_unseal(ret.sealed.val, password)]
    /\ budget' = budget - 1
    /\ UNCHANGED sealUnused

SealNext ==
    \/ \E scroll \in SealScrolls, password \in SealPasswords, salt \in SealSalts :
          Seal(scroll, password, salt)
    \/ \E password \in SealPasswords : Unseal(password)

SealSpec == SealInit /\ [][SealNext]_vars

-----------------------------------------------------------------------------
(* Properties of sealed scrolls                                             *)

\* An envelope sealed with a password string was opened
UnsealedAfterSeal == ret.op = "unseal" /\ ret.password.some

\* The three outcomes the claim names, for the unseal call just made
OpensOnlyWithItsPassword ==
    /\ ret.with = ret.password => ret.res.ok /\ ret.res.val.data = ret.scroll.data
    /\ ret.with.some /\ ret.with # ret.password => ~ret.res.ok
    /\ ~ret.with.some => ~ret.res.ok

\* C29: for every scroll s and every password pw that seal accepts, the
\* empty string included, unsealing seal(s, pw) with pw returns s.data,
\* with any other password fails, and with no password fails.
C29_OpensOnlyWithPassword == UnsealedAfterSeal => OpensOnlyWithItsPassword

\* C29, amended: the three outcomes hold for every non-empty password; an
\* envelope sealed with the empty string has has_password = false and
\* opens to s.data with any password and with none.
C29_OpensOnlyWithNonEmptyPassword ==
    UnsealedAfterSeal =>
        /\ ret.sealed.val.has_password = (ret.password.v # <<>>)
        /\ IF ret.password.v # <<>> THEN OpensOnlyWithItsPassword
           ELSE ret.res.ok /\ ret.res.val.data = ret.scroll.data

\* An envelope sealed with a non-empty password was refused to a wrong
\* password
C29_Witness ==
    /\ UnsealedAfterSeal
    /\ ret.password = Some(Pw)
    /\ ret.with = Some(WrongPw)
    /\ ~ret.res.ok

\* An envelope sealed with the empty string was opened without a password
C29_EmptyPasswordOpened ==
    /\ UnsealedAfterSeal
    /\ ret.password = Some(<<>>)
    /\ ~ret.with.some
    /\ ret.res.ok

-----------------------------------------------------------------------------
(* The patch engine on its own: a patch is computed between two documents   *)
(* and applied to a document.                                               *)

\* The most members an object of the documents has
MaxMembers == 2

DocLeaves == {JNum(1), JArr(<<JNum(1)>>)}
InnerKeys == {<<"a">>, <<"/">>, <<"~", "1">>}
OuterKeys == {<<>>, <<"~">>, <<"a">>}

ObjectsOver(keys, values) ==
    {JObj(m) : m \in UNION {[S -> values] :
                     S \in {T \in SUBSET keys : Cardinality(T) <= MaxMembers}}}

\* Flat objects, and objects holding one of them
InnerDocs == ObjectsOver(InnerKeys, DocLeaves)
NestedDocs ==
    {JObj(MapInsert(EmptyMap, k, inner)) : k \in OuterKeys, inner \in InnerDocs}
        \cup {JObj(MapInsert(MapInsert(EmptyMap, <<"a">>, inner), <<"~", "0">>, leaf)) :
                 inner \in InnerDocs, leaf \in DocLeaves}
Docs == DocLeaves \cup InnerDocs \cup NestedDocs

PatchKey == KeyA

PatchInit ==
    /\ files = <<>>
    /\ versions = <<>>
    /\ mem = <<>>
    /\ mounts = <<>>
    /\ threads = <<>>
    /\ anchorLog = {}
    /\ writeLog = <<>>
    /\ \E s \in Docs, s2 \in Docs :
          ret = [op |-> "new", old |-> ScrollNew(PatchKey, s), new |-> ScrollNew(PatchKey, s2)]
    /\ budget = 0
    /\ NoWatch
    /\ NoVault

patchUnused ==
    <<files, versions, mem, mounts, threads, anchorLog, writeLog, budget, watchVars,
      vaultVars>>

\* diff::create(key, Some(&old), &new)
PatchCreate ==
    /\ ret.op = "new"
    /\ ret' = [op |-> "create", old |-> ret.old, new |-> ret.new,
               patch |-> diff_create(PatchKey, Some(ret.old), ret.new)]
    /\ UNCHANGED patchUnused

\* diff::apply(&scroll, &patch) with scroll the old or the new state the
\* caller holds; apply works on a clone of scroll.data, the caller's scroll
\* is borrowed
PatchApply(onto) ==
    /\ ret.op = "create"
    /\ \E scroll \in {ret[onto]} :
          ret' = [op |-> "apply", old |-> ret.old, new |-> ret.new, patch |-> ret.patch,
                  onto |-> onto, input |-> scroll, res |-> diff_apply(scroll, ret.patch)]
    /\ UNCHANGED patchUnused

PatchNext ==
    \/ PatchCreate
    \/ \E onto \in {"old", "new"} : PatchApply(onto)

PatchSpec == PatchInit /\ [][PatchNext]_vars

-----------------------------------------------------------------------------
(* Properties of the patch engine                                           *)

\* C28: for all JSON values s and s2 (nested objects, arrays as atomic
\* values, object keys of any content) applying the patch computed from s
\* to s2 onto s yields exactly s2, and a failing apply leaves its input
\* scroll unchanged.
C28_ApplyOfDiff ==
    ret.op = "apply" =>
        /\ ret.onto = "old" => ret.res.ok /\ ret.res.val.data = ret.new.data
        /\ ~ret.res.ok => ret.input = ret[ret.onto]

\* A patch of several operations, one of them on an escaped key below
\* another object, was applied to the state it was computed from
C28_Witness ==
    /\ ret.op = "apply"
    /\ ret.onto = "old"
    /\ Len(ret.patch.ops) >= 2
    /\ \E i \in 1..Len(ret.patch.ops) :
          /\ Len(Split(ret.patch.ops[i].path, "/")) = 3
          /\ \E j \in 1..Len(ret.patch.ops[i].path) : ret.patch.ops[i].path[j] = "~"
    /\ ret.res.ok

\* An apply failed
C28_ApplyFailed == ret.op = "apply" /\ ~ret.res.ok

-----------------------------------------------------------------------------
(* The parent of a patch written after the scroll file was removed          *)

\* C30: every patch persisted for a key that already has earlier patches is
\* non-genesis: it records a parent, the hash of the state persisted by the
\* preceding write of the key, also when the scroll file was removed by
\* delete or prune between the two writes.
C30_ParentOfEveryLaterPatch ==
    \A k \in PruneKeys :
        LET W == WritesOf(k) IN
        \A i \in 2..Len(W) : W[i].parent = Some(W[i - 1].hash)

\* What the store does: a write that follows a write directly records its
\* hash as parent, a write that follows the removal of the scroll file
\* records no parent while its seq continues the count of the patches
C30_ParentUnlessRemoved ==
    \A k \in PruneKeys :
        LET L == writeLog[k] IN
        \A i \in 2..Len(L) :
            IsWrite(L[i]) =>
                /\ L[i].seq > 1
                /\ L[i].parent = IF IsWrite(L[i - 1]) THEN Some(L[i - 1].hash) ELSE NoneV

\* A key was written again after prune had removed its scroll file
C30_WrittenAfterPrune ==
    \E k \in PruneKeys :
        LET L == writeLog[k] IN
        /\ Len(L) = 2
        /\ ~IsWrite(L[2])
        /\ ret.op = "prune"

-----------------------------------------------------------------------------
(* state_at and the patches on disk                                         *)

\* The data of the write of k that was assigned seq s last: the write whose
\* patch is the file s.json
WrittenWith(k, s) ==
    LET W == WritesOf(k)
        last == SetMax({i \in 1..Len(W) : W[i].seq = s})
    IN  W[last].data

\* state_at(k, s) answers for the patch with seq s: it returns the data of
\* the write that was assigned s when such a patch is on disk, and fails
\* when none is
AnswersBySeq(k, s) ==
    \E patches \in {Store_history(files, k)} :
    \E r \in {Store_state_at(files, k, s)} :
        patches.ok =>
            IF \E i \in 1..Len(patches.val) : patches.val[i].seq = s
            THEN r.ok /\ r.val.data = WrittenWith(k, s)
            ELSE ~r.ok

\* The patches of k on disk are numbered 1, 2, ... without a gap, each
\* after the first continuing the one before
Unbroken(k) ==
    \E patches \in {Store_history(files, k)} :
        /\ patches.ok
        /\ \A i \in 1..Len(patches.val) :
              /\ patches.val[i].seq = i
              /\ i = 1 => ~patches.val[i].parent.some /\ ~Compacted(k)

\* C31: state_at(key, s) returns the scroll as it existed after the write
\* that was assigned seq s whenever a patch with seq s is on disk, and fails
\* otherwise; this holds also after compact has removed older patches.
C31_StateAtBySeq ==
    \A k \in StoreKeys : \A s \in 0..(MaxStateAt + 1) : AnswersBySeq(k, s)

\* The same for the keys whose patches on disk start at the genesis patch
C31_StateAtBySeqUnbroken ==
    \A k \in StoreKeys : Unbroken(k) => \A s \in 0..(MaxStateAt + 1) : AnswersBySeq(k, s)

\* compact has removed the oldest patch of a key with three patches
C31_OlderPatchesRemoved ==
    /\ ret.op = "compact"
    /\ ret.res = Ok(1)
    /\ \E patches \in {Store_history(files, ret.key)} :
          patches.ok /\ Len(patches.val) = 2 /\ patches.val[1].seq = 2

-----------------------------------------------------------------------------
(* The timestamps of a scroll: metadata.created_at and metadata.updated_at  *)
(* as the backends and the store set them.  A timestamp is the reading of   *)
(* the clock in milliseconds (current_iso_time).                            *)

\* write of the memory and of the file backend: both timestamps are set
\* from the clock
BackendTimes(scroll, t) == [created_at |-> Some(t), updated_at |-> Some(t)] @@ scroll

\* created_at of a scroll as Scroll::new leaves it or as a read returned it
CreatedAt(scroll) == IF "created_at" \in DOMAIN scroll THEN scroll.created_at ELSE NoneV

\* write_scroll of the store: created_at is set when the scroll carries
\* none, updated_at always
StoreTimes(scroll, t) ==
    [created_at |-> IF CreatedAt(scroll).some THEN CreatedAt(scroll) ELSE Some(t),
     updated_at |-> Some(t)] @@ scroll

\* MemoryNamespace::write at clock reading t
MemoryNamespace_write_at(store, path, data, t) ==
    LET Timed(w) ==
            IF ~w.res.ok THEN w
            ELSE [store |-> MapInsert(w.store, path, BackendTimes(w.res.val, t)),
                  res   |-> Ok(BackendTimes(w.res.val, t))]
    IN  Timed(MemoryNamespace_write(store, path, data))

\* FileNamespace::write at clock reading t
FileNamespace_write_at(fs, vc, path, data, t) ==
    LET Timed(w) ==
            IF ~w.res.ok THEN w
            ELSE [fs  |-> FsPut(w.fs, scroll_path_to_fs(path),
                                ScrollFile(BackendTimes(w.res.val, t))),
                  vc  |-> w.vc,
                  res |-> Ok(BackendTimes(w.res.val, t))]
    IN  Timed(FileNamespace_write(fs, vc, path, data))

\* Store::write_scroll at clock reading t
Store_write_scroll_at(fs, vc, scroll, t) == Store_write_scroll(fs, vc, StoreTimes(scroll, t))

\* <Store as Namespace>::write at clock reading t
Store_write_at(fs, vc, path, data, t) == Store_write_scroll_at(fs, vc, ScrollNew(path, data), t)

-----------------------------------------------------------------------------
(* One namespace (memory backend, file backend or store) written and read   *)
(* while the clock advances.                                                *)

MaxTimedOps == 4

TimedBackends == {"memory", "file", "store"}
TimedKeys == {KeyA, KeyB}

\* ret.backend names the namespace of the run; writeLog keeps, per key, the
\* clock reading of each write
TimedInit ==
    /\ files = <<>>
    /\ versions = <<>>
    /\ mem = [ns \in {"M"} |-> <<>>]
    /\ mounts = <<>>
    /\ threads = <<>>
    /\ anchorLog = {}
    /\ writeLog = [k \in TimedKeys |-> <<>>]
    /\ \E b \in TimedBackends : ret = [op |-> "open", backend |-> b]
    /\ budget = MaxTimedOps
    /\ NoWatch
    /\ limiter = <<>>
    /\ now = 1
    /\ session = <<>>

timedUnused == <<mounts, threads, anchorLog, watchVars, limiter, session>>

TimedRead(k) ==
    IF ret.backend = "memory" THEN MemoryNamespace_read(mem["M"], k)
    ELSE IF ret.backend = "file" THEN FileNamespace_read(files, k)
    ELSE Store_read(files, k)

\* The state and the result of ns.write(k, d) at the clock reading now
TimedWritten(k, d) ==
    LET OfMemory(w) == [fs |-> files, vc |-> versions, store |-> w.store, res |-> w.res]
        OfFiles(w) == [fs |-> w.fs, vc |-> w.vc, store |-> mem["M"], res |-> w.res]
    IN  IF ret.backend = "memory" THEN OfMemory(MemoryNamespace_write_at(mem["M"], k, d, now))
        ELSE IF ret.backend = "file"
        THEN OfFiles(FileNamespace_write_at(files, versions, k, d, now))
        ELSE OfFiles(Store_write_at(files, versions, k, d, now))

\* ns.write(k, d), after which the clock advances by tick
TimedWrite(k, d, tick) ==
    /\ budget > 0
    /\ \E w \in {TimedWritten(k, d)} :
          /\ files' = w.fs
          /\ versions' = w.vc
          /\ mem' = [mem EXCEPT !["M"] = w.store]
          /\ writeLog' = IF w.res.ok
                         THEN [writeLog EXCEPT ![k] = Append(@, [e |-> "write", at |-> now])]
                         ELSE writeLog
          /\ ret' = [op |-> "write", backend |-> ret.backend, key |-> k, res |-> w.res]
    /\ now' = now + tick
    /\ budget' = budget - 1
    /\ UNCHANGED timedUnused

\* The store's client reads the scroll of k, changes its data and hands the
\* scroll to write_scroll
TimedRewrite(k, d, tick) ==
    /\ budget > 0
    /\ ret.backend = "store"
    /\ \E cur \in {Store_read(files, k)} :
          /\ cur.ok /\ cur.val.some
          /\ \E w \in {Store_write_scroll_at(files, versions,
                                             [cur.val.v EXCEPT !.data = d], now)} :
                /\ files' = w.fs
                /\ versions' = w.vc
                /\ writeLog' = IF w.res.ok
                               THEN [writeLog EXCEPT
                                        ![k] = Append(@, [e |-> "write_scroll", at |-> now])]
                               ELSE writeLog
                /\ ret' = [op |-> "write_scroll", backend |-> ret.backend, key |-> k,
                           res |-> w.res]
    /\ now' = now + tick
    /\ budget' = budget - 1
    /\ UNCHANGED mem
    /\ UNCHANGED timedUnused

TimedNext ==
    \/ \E k \in TimedKeys, d \in WriteData, tick \in {0, 1} : TimedWrite(k, d, tick)
    \/ \E k \in TimedKeys, d \in WriteData, tick \in {0, 1} : TimedRewrite(k, d, tick)

TimedSpec == TimedInit /\ [][TimedNext]_vars

-----------------------------------------------------------------------------
(* Properties of the timestamps                                             *)

\* read(k) shows these timestamps
ReadsTimes(k, created, updated) ==
    \E r \in {TimedRead(k)} :
        /\ r.ok /\ r.val.some
        /\ r.val.v.created_at = Some(created)
        /\ r.val.v.updated_at = Some(updated)

\* C32: created_at of a key is set by the first write of the key and left
\* unchanged by every later write, in the memory backend, the file backend
\* and the store, while updated_at is set anew on every write.
C32_CreatedAtOfFirstWrite ==
    \A k \in TimedKeys :
        LET L == writeLog[k] IN
        L # <<>> => ReadsTimes(k, L[1].at, L[Len(L)].at)

\* What the three do: every write(path, data) sets created_at anew, and
\* only a scroll handed to the store's write_scroll keeps the created_at it
\* carries
C32_CreatedAtOfLastWrite ==
    \A k \in TimedKeys :
        LET L == writeLog[k]
            last == SetMax({i \in 1..Len(L) : L[i].e = "write"})
        IN  L # <<>> => ReadsTimes(k, L[last].at, L[Len(L)].at)

\* A key was written twice at different times
C32_WrittenTwice ==
    \E k \in TimedKeys :
        LET L == writeLog[k] IN
        Len(L) = 2 /\ L[1].at < L[2].at /\ L[2].e = "write"

\* A scroll that was read went through write_scroll at a later time
C32_Rewritten ==
    \E k \in TimedKeys :
        LET L == writeLog[k] IN
        Len(L) = 2 /\ L[1].at < L[2].at /\ L[2].e = "write_scroll"

-----------------------------------------------------------------------------
(* The reactor's hot cache (wallet_spark/reactor.rs): emit and ingest call  *)
(* update_state and then dispatch, each under a lock of its own.            *)

\* WalletReactor::update_state on the cache (path -> scroll)
WalletReactor_update_state(state, scroll) == MapInsert(state, scroll.key, scroll)

\* WalletReactor::get_cached
WalletReactor_get_cached(state, path) ==
    IF InMap(state, path) THEN Some(state[path]) ELSE NoneV

-----------------------------------------------------------------------------
(* Threads emitting scrolls into one reactor with one subscriber.  mem      *)
(* holds the cache; writeLog keeps, per key, the scrolls in the order in    *)
(* which dispatch handed them to the watchers; ret.overlapped keeps the     *)
(* keys for which an emit began while another emit of the key was under way *)

MaxEmits == 3

Cache == "cache"

EmitInit ==
    /\ files = <<>>
    /\ versions = <<>>
    /\ mem = [c \in {Cache} |-> <<>>]
    /\ mounts = <<>>
    /\ threads = [t \in Threads |-> Idle]
    /\ anchorLog = {}
    /\ writeLog = [k \in ReactorKeys |-> <<>>]
    /\ ret = [op |-> "new", overlapped |-> {}]
    /\ budget = MaxEmits
    /\ watchers = [b \in {Reactor} |-> <<>>]
    /\ chans = <<>>
    /\ closed = <<>>
    /\ forwarders = <<>>
    /\ NoVault

emitUnused == <<files, versions, mounts, anchorLog, closed, forwarders, vaultVars>>

\* reactor.watch(pattern) by the one subscriber
EmitWatch(pattern) ==
    /\ chans = <<>>
    /\ chans' = Append(chans, channel(EVENT_BUS_CAPACITY, FALSE))
    /\ watchers' = [watchers EXCEPT
                       ![Reactor] = Append(@, ReactorWatcher(pattern, Len(chans) + 1))]
    /\ ret' = [op |-> "watch", overlapped |-> ret.overlapped]
    /\ UNCHANGED <<mem, threads, writeLog, budget>>
    /\ UNCHANGED emitUnused

\* Thread t enters emit(scroll) (or ingest of an event that yields scroll)
\* and returns from update_state
EmitUpdateState(t, key, data) ==
    /\ budget > 0
    /\ threads[t] = Idle
    /\ \E scroll \in {ScrollNew(key, data)} :
          /\ mem' = [mem EXCEPT ![Cache] = WalletReactor_update_state(@, scroll)]
          /\ threads' = [threads EXCEPT ![t] = [pc |-> "dispatch", scroll |-> scroll]]
    /\ ret' = [op |-> "update_state",
               overlapped |-> IF \E u \in Threads : /\ threads[u] # Idle
                                                    /\ threads[u].scroll.key = key
                              THEN ret.overlapped \cup {key} ELSE ret.overlapped]
    /\ budget' = budget - 1
    /\ UNCHANGED <<writeLog, watchers, chans>>
    /\ UNCHANGED emitUnused

\* Thread t runs dispatch under the watchers lock and returns from emit
EmitDispatch(t) ==
    /\ threads[t] # Idle
    /\ \E r \in {WalletReactor_dispatch(watchers[Reactor], chans, threads[t].scroll)} :
          /\ watchers' = [watchers EXCEPT ![Reactor] = r.ws]
          /\ chans' = r.chs
    /\ writeLog' = [writeLog EXCEPT ![threads[t].scroll.key] = Append(@, threads[t].scroll)]
    /\ threads' = [threads EXCEPT ![t] = Idle]
    /\ ret' = [op |-> "dispatch", overlapped |-> ret.overlapped]
    /\ UNCHANGED <<mem, budget>>
    /\ UNCHANGED emitUnused

EmitNext ==
    \/ \E pattern \in ReactorPatterns : EmitWatch(pattern)
    \/ \E t \in Threads, key \in ReactorKeys, data \in WriteData : EmitUpdateState(t, key, data)
    \/ \E t \in Threads : EmitDispatch(t)

EmitSpec == EmitInit /\ [][EmitNext]_vars

-----------------------------------------------------------------------------
(* Properties of the hot cache                                              *)

\* The cache holds for k the scroll that was dispatched last
CachedIsLastDispatched(k) ==
    writeLog[k] # <<>> =>
        WalletReactor_get_cached(mem[Cache], k) = Some(writeLog[k][Len(writeLog[k])])

\* C33: once all ingest and emit calls have returned, get_cached(k) is for
\* every key k the scroll for k that was dispatched to the watchers last,
\* also when the calls ran concurrently on several threads.
C33_CacheServesLastDispatched ==
    AllIdle => \A k \in ReactorKeys : CachedIsLastDispatched(k)

\* The same for the keys none of whose emits overlapped another
C33_CacheServesLastDispatchedInTurn ==
    AllIdle => \A k \in ReactorKeys : k \notin ret.overlapped => CachedIsLastDispatched(k)

\* Two emits of one key overlapped and both have returned, the subscriber
\* having received both scrolls
C33_EmitsOverlapped ==
    /\ AllIdle
    /\ ret.overlapped # {}
    /\ chans # <<>>
    /\ Len(chans[1].buf) = 2

-----------------------------------------------------------------------------
(* A store write whose patch cannot be persisted.  store_patch fails when   *)
(* create_dir_all or File::create fails: because a file stands where the    *)
(* patches directory has to go, or because the disk refuses (disk_ok).      *)

\* Store::store_patch with its result
store_patch_on(fs, patch, disk_ok) ==
    IF ~disk_ok \/ ~CanCreate(fs, PatchPath(patch.key, patch.seq))
    THEN [fs |-> fs, res |-> Err("Internal")]
    ELSE [fs |-> store_patch(fs, patch), res |-> Ok(TRUE)]

\* <Store as Namespace>::write_scroll and Store::write_scroll_internal with
\* the result of store_patch: the scroll file is written first, and an error
\* of store_patch is returned with the scroll file in place.  failed_at
\* names the call whose error is returned.
Store_write_scroll_on(fs, vc, scroll, disk_ok) ==
    LET Failed(res, stage) == [fs |-> fs, vc |-> vc, res |-> res, failed_at |-> stage]
        Recorded(versioned_scroll, w, p) ==
            IF ~p.res.ok
            THEN [fs |-> w.fs, vc |-> w.vc, res |-> p.res, failed_at |-> "patch"]
            ELSE [fs |-> p.fs, vc |-> w.vc, res |-> Ok(versioned_scroll), failed_at |-> "none"]
        Written(old, new_version, versioned_scroll, w) ==
            IF ~w.res.ok THEN Failed(w.res, "write")
            ELSE Recorded(versioned_scroll, w,
                          store_patch_on(w.fs, StoredPatch(scroll.key, old.val,
                                                           versioned_scroll, new_version),
                                         disk_ok))
        Stamped(old, new_version, versioned_scroll) ==
            Written(old, new_version, versioned_scroll,
                    FileNamespace_write(fs, vc, scroll.key, seal(StoreKey, versioned_scroll)))
        Sequenced(old, new_version) ==
            Stamped(old, new_version, StampedScroll(scroll, new_version))
        Started(old) ==
            IF ~old.ok THEN Failed(old, "read") ELSE Sequenced(old, next_seq(fs, scroll.key))
    IN  Started(Store_read(fs, scroll.key))

\* Store::restore with the result of store_patch
Store_restore_on(fs, vc, path, anchor_id, disk_ok) ==
    LET Failed(res) == [fs |-> fs, vc |-> vc, res |-> res, failed_at |-> "anchor"]
        Verified(anchor) ==
            IF ~anchor_verify(anchor) THEN Failed(Err("Internal"))
            ELSE Store_write_scroll_on(fs, vc, anchor.scroll, disk_ok)
        Found(anchors, found) ==
            IF found = {} THEN Failed(Err("NotFound"))
            ELSE Verified(anchors[CHOOSE i \in found : \A j \in found : i <= j])
        Searched(anchors) ==
            IF ~anchors.ok THEN Failed(anchors)
            ELSE Found(anchors.val,
                       {i \in 1..Len(anchors.val) : anchors.val[i].id = anchor_id})
    IN  Searched(Store_anchors(fs, path))

-----------------------------------------------------------------------------
(* A store written and restored, on a disk that may refuse a patch file.    *)
(* One key is the path of the other key's first patch file.                 *)

MaxAtomicOps == 3

KeyPatch == KeyA \o <<"/">> \o PatchesDir \o <<"/">> \o Format08(1) \o JsonExt
AtomicKeys == {KeyA, KeyPatch}

AtomicInit ==
    /\ files = <<>>
    /\ versions = <<>>
    /\ mem = <<>>
    /\ mounts = <<>>
    /\ threads = <<>>
    /\ anchorLog = {}
    /\ writeLog = <<>>
    /\ ret = [op |-> "open"]
    /\ budget = MaxAtomicOps
    /\ NoWatch
    /\ NoVault

atomicUnused == <<mem, mounts, threads, anchorLog, writeLog, watchVars, vaultVars>>

\* What a call on key k leaves in ret: the result, and the scroll and the
\* history of k before the call
AtomicReturn(op, k, r) ==
    [op |-> op, key |-> k, res |-> r.res, failed_at |-> r.failed_at,
     scroll_before |-> Store_read(files, k), history_before |-> Store_history(files, k)]

\* store.write(k, d)
AtomicWrite(k, d, disk_ok) ==
    /\ budget > 0
    /\ \E r \in {Store_write_scroll_on(files, versions, ScrollNew(k, d), disk_ok)} :
          /\ files' = r.fs
          /\ versions' = r.vc
          /\ ret' = AtomicReturn("write", k, r)
    /\ budget' = budget - 1
    /\ UNCHANGED atomicUnused

\* store.anchor(k)
AtomicAnchor(k) ==
    /\ budget > 0
    /\ \E r \in {Store_anchor(files, k, NoneV, 0, 0)} :
          /\ r.res.ok
          /\ files' = r.fs
          /\ ret' = [op |-> "anchor", key |-> k, res |-> r.res]
    /\ budget' = budget - 1
    /\ UNCHANGED versions
    /\ UNCHANGED atomicUnused

\* store.restore(k, id) for an anchor of k on disk
AtomicRestore(k, disk_ok) ==
    /\ budget > 0
    /\ \E anchors \in {Store_anchors(files, k)} :
          /\ anchors.ok
          /\ \E i \in 1..Len(anchors.val) :
                \E r \in {Store_restore_on(files, versions, k, anchors.val[i].id, disk_ok)} :
                    /\ files' = r.fs
                    /\ versions' = r.vc
                    /\ ret' = AtomicReturn("restore", k, r)
    /\ budget' = budget - 1
    /\ UNCHANGED atomicUnused

AtomicNext ==
    \/ \E k \in AtomicKeys, d \in WriteData, disk_ok \in BOOLEAN : AtomicWrite(k, d, disk_ok)
    \/ \E k \in AtomicKeys : AtomicAnchor(k)
    \/ \E k \in AtomicKeys, disk_ok \in BOOLEAN : AtomicRestore(k, disk_ok)

AtomicSpec == AtomicInit /\ [][AtomicNext]_vars

-----------------------------------------------------------------------------
(* Properties of a store write and its patch                                *)

WasWrite == ret.op \in {"write", "restore"}

\* The newest patch of k on disk has the hash and the seq of the scroll
\* readable at k; a key without a scroll has no patch
NewestPatchIsScroll(k) ==
    \E scroll \in {Store_read(files, k)} : \E patches \in {Store_history(files, k)} :
        /\ scroll.ok
        /\ patches.ok
        /\ IF scroll.val.some
           THEN /\ patches.val # <<>>
                /\ patches.val[Len(patches.val)].seq = scroll.val.v.version
                /\ Some(patches.val[Len(patches.val)].hash) = scroll.val.v.hash
           ELSE patches.val = <<>>

ScrollUnchanged == Store_read(files, ret.key) = ret.scroll_before
HistoryUnchanged == Store_history(files, ret.key) = ret.history_before

\* C34: after any write, write_scroll or restore returns, with success or
\* with an error, the newest patch on disk for the key has the hash and seq
\* of the scroll readable at the key; a failed write leaves both the scroll
\* and the history unchanged.
C34_WriteIsAtomic ==
    WasWrite =>
        /\ NewestPatchIsScroll(ret.key)
        /\ ~ret.res.ok => ScrollUnchanged /\ HistoryUnchanged

\* What holds: a successful call leaves scroll and newest patch in step
\* where the history of the key can be read (it cannot when another key's
\* history directory stands among the patch files), and a failed call
\* leaves the history unchanged, and the scroll too unless the error is
\* that of store_patch
C34_WriteIsAtomicUnlessPatchFails ==
    WasWrite =>
        /\ ret.res.ok /\ Store_history(files, ret.key).ok => NewestPatchIsScroll(ret.key)
        /\ ~ret.res.ok => HistoryUnchanged /\ (ret.failed_at # "patch" => ScrollUnchanged)

\* A write failed in store_patch on a disk that did not refuse anything
C34_PatchDirectoryBlocked ==
    /\ ret.op = "write"
    /\ ~ret.res.ok
    /\ ret.failed_at = "patch"
    /\ ~ScrollUnchanged
    /\ ret.key = KeyPatch

-----------------------------------------------------------------------------
(* Concurrent VaultStore::initialize calls on one vault.  initialize holds  *)
(* no lock: is_initialized and the three writes of initialize_internal are  *)
(* separate steps of the calling thread.                                    *)

MaxInitCalls == 3

\* the random salt a call of thread t generates
SaltOf(t) == IF t = 1 THEN Salt ELSE <<"salt2">>

\* The n-th ns.write of VaultStore::initialize_internal
initialize_internal_write(fs, vc, n, passphrase, seed_phrase, salt, hash_salt) ==
    IF n = 1
    THEN FileNamespace_write(fs, vc, PassphraseHashPath,
                             JStr(hash_passphrase(passphrase, hash_salt)))
    ELSE IF n = 2 THEN FileNamespace_write(fs, vc, SaltPath, JStr(salt))
    ELSE FileNamespace_write(fs, vc, SeedPath,
             JObj(MapInsert(EmptyMap, <<"ciphertext">>,
                            JStr(crypto_seal(derive_key(passphrase, salt), seed_phrase)))))

InitRaceInit ==
    /\ files = <<>>
    /\ versions = <<>>
    /\ mem = <<>>
    /\ mounts = <<>>
    /\ threads = [t \in Threads |-> Idle]
    /\ anchorLog = {}
    /\ writeLog = <<>>
    /\ ret = [op |-> "open", keys |-> {}, overlapped |-> FALSE]
    /\ budget = MaxInitCalls
    /\ NoWatch
    /\ limiter = RateLimiter_new
    /\ now = 0
    /\ session = <<>>

initRaceUnused == <<mem, mounts, anchorLog, writeLog, watchVars, vaultVars>>

\* Thread t calls initialize(passphrase, seed_phrase): is_initialized()
InitRaceCheck(t, passphrase, seed_phrase) ==
    /\ budget > 0
    /\ threads[t] = Idle
    /\ \E initialized \in {VaultStore_is_initialized(files)} :
          IF initialized.ok /\ ~initialized.val
          THEN /\ threads' = [threads EXCEPT ![t] =
                     [pc |-> "write", n |-> 1, passphrase |-> passphrase,
                      seed_phrase |-> seed_phrase]]
               /\ ret' = [ret EXCEPT !.op = "is_initialized",
                              !.overlapped = @ \/ (\E u \in Threads : threads[u] # Idle)]
          ELSE /\ threads' = threads
               /\ ret' = [ret EXCEPT !.op = "refused"]
    /\ budget' = budget - 1
    /\ UNCHANGED <<files, versions>>
    /\ UNCHANGED initRaceUnused

\* Thread t does the next write of initialize_internal; after the third, or
\* after a failed one, the call returns
InitRaceWrite(t) ==
    /\ threads[t].pc = "write"
    /\ \E w \in {initialize_internal_write(files, versions, threads[t].n,
                     threads[t].passphrase, threads[t].seed_phrase, SaltOf(t), SaltOf(t))} :
          /\ files' = w.fs
          /\ versions' = w.vc
          /\ IF w.res.ok /\ threads[t].n < 3
             THEN /\ threads' = [threads EXCEPT ![t].n = @ + 1]
                  /\ ret' = [ret EXCEPT !.op = "write"]
             ELSE /\ threads' = [threads EXCEPT ![t] = Idle]
                  /\ ret' = [ret EXCEPT !.op = "initialize",
                                 !.keys = IF w.res.ok
                                          THEN @ \cup {<<threads[t].passphrase,
                                                         threads[t].seed_phrase>>}
                                          ELSE @]
    /\ UNCHANGED budget
    /\ UNCHANGED initRaceUnused

InitRaceNext ==
    \/ \E t \in Threads, c \in Credentials : InitRaceCheck(t, c[1], c[2])
    \/ \E t \in Threads : InitRaceWrite(t)

InitRaceSpec == InitRaceInit /\ [][InitRaceNext]_vars

\* When no initialize call is running: at most one call has returned a key,
\* and if one has, unlocking with its passphrase yields its seed
OneInitializeWon ==
    AllIdle =>
       /\ Cardinality(ret.keys) <= 1
       /\ \A c \in ret.keys : GivesAccess(c[1], c[2])

\* C35: when several initialize calls run concurrently on an uninitialized
\* vault, at most one of them returns a key, and afterwards /passphrase-hash,
\* /salt and /seed all stem from that single call: unlocking with its
\* passphrase yields its seed.
C35_OneInitializeWins == OneInitializeWon

\* C35 for calls that do not overlap: a call that starts after another has
\* returned is refused, and the records are those of the one call
C35_OneInitializeWinsInTurn == ~ret.overlapped => OneInitializeWon

\* Two overlapping calls have both returned a key, and neither passphrase
\* gives access to its seed
C35_BothInitialized ==
    /\ AllIdle
    /\ ret.overlapped
    /\ Cardinality(ret.keys) = 2
    /\ \A c \in ret.keys : ~GivesAccess(c[1], c[2])

-----------------------------------------------------------------------------
(* Concurrent VaultStore::unlock calls on an initialized vault.  unlock     *)
(* takes the rate limiter's mutex for check_locked, releases it, verifies   *)
(* the passphrase, and takes the mutex again for record_failure or          *)
(* record_success.  The clock stands still while the calls run.             *)

MaxUnlockCalls == 5

\* A lockout is in effect at time t
LockedOut(l, t) == l.locked_until.some /\ t < l.locked_until.v

UnlockRaceInit ==
    /\ \E v \in {VaultStore_initialize(<<>>, <<>>, Pw, Seed, Salt, Salt)} :
          /\ files = v.fs
          /\ versions = v.vc
    /\ mem = <<>>
    /\ mounts = <<>>
    /\ threads = [t \in Threads |-> Idle]
    /\ anchorLog = {}
    /\ writeLog = <<>>
    /\ ret = [op |-> "initialize", wrong_verified |-> 0, key_in_lockout |-> FALSE,
              overlapped |-> FALSE]
    /\ budget = MaxUnlockCalls
    /\ NoWatch
    /\ limiter = RateLimiter_new
    /\ now = 0
    /\ session = <<>>

unlockRaceUnused == <<files, versions, mem, mounts, anchorLog, writeLog, watchVars, now, session>>

\* Thread t calls unlock(passphrase): check_locked under the mutex
UnlockRaceCheck(t, passphrase) ==
    /\ budget > 0
    /\ threads[t] = Idle
    /\ \E c \in {check_locked(limiter, now)} :
          /\ limiter' = c.limiter
          /\ IF c.res.ok
             THEN /\ threads' = [threads EXCEPT ![t] =
                        [pc |-> "verify", passphrase |-> passphrase]]
                  /\ ret' = [ret EXCEPT !.op = "check_locked",
                                 !.overlapped = @ \/ (\E u \in Threads : threads[u] # Idle)]
             ELSE /\ threads' = threads
                  /\ ret' = [ret EXCEPT !.op = "RateLimited"]
    /\ budget' = budget - 1
    /\ UNCHANGED unlockRaceUnused

\* Thread t reads /passphrase-hash and verifies its passphrase against it
UnlockRaceVerify(t) ==
    /\ threads[t].pc = "verify"
    /\ \E hash_scroll \in {FileNamespace_read(files, PassphraseHashPath)} :
          IF verify_passphrase(threads[t].passphrase, hash_scroll.val.v.data.s)
          THEN /\ threads' = [threads EXCEPT ![t].pc = "verified"]
               /\ ret' = [ret EXCEPT !.op = "verified"]
          ELSE /\ threads' = [threads EXCEPT ![t].pc = "failed"]
               /\ ret' = [ret EXCEPT !.op = "refuted", !.wrong_verified = @ + 1]
    /\ UNCHANGED <<budget, limiter>>
    /\ UNCHANGED unlockRaceUnused

\* Thread t records the failure under the mutex and returns InvalidPassphrase
UnlockRaceFailure(t) ==
    /\ threads[t].pc = "failed"
    /\ limiter' = record_failure(limiter, now, FALSE)
    /\ threads' = [threads EXCEPT ![t] = Idle]
    /\ ret' = [ret EXCEPT !.op = "InvalidPassphrase"]
    /\ UNCHANGED budget
    /\ UNCHANGED unlockRaceUnused

\* Thread t records the success under the mutex, derives the key with /salt
\* and returns it
UnlockRaceSuccess(t) ==
    /\ threads[t].pc = "verified"
    /\ limiter' = record_success(limiter)
    /\ threads' = [threads EXCEPT ![t] = Idle]
    /\ ret' = [ret EXCEPT !.op = "key", !.wrong_verified = 0,
                   !.key_in_lockout = @ \/ LockedOut(limiter, now)]
    /\ UNCHANGED budget
    /\ UNCHANGED unlockRaceUnused

UnlockRaceNext ==
    \/ \E t \in Threads, passphrase \in Passphrases : UnlockRaceCheck(t, passphrase)
    \/ \E t \in Threads : UnlockRaceVerify(t)
    \/ \E t \in Threads : UnlockRaceFailure(t)
    \/ \E t \in Threads : UnlockRaceSuccess(t)

UnlockRaceSpec == UnlockRaceInit /\ [][UnlockRaceNext]_vars

\* At most MAX_ATTEMPTS wrong passphrases were verified since the limiter
\* last had no failures, and no call returned a key during a lockout
LockoutBounds == ret.wrong_verified <= MAX_ATTEMPTS /\ ~ret.key_in_lockout

\* C36: starting from a rate limiter with zero recorded failures, at most
\* three wrong passphrases are verified against the stored hash before the
\* lockout blocks every further verification, however many unlock calls run
\* concurrently; and no unlock call returns a key while a lockout is in effect.
C36_LockoutBoundsVerifications == LockoutBounds

\* C36 for unlock calls that do not overlap
C36_LockoutBoundsVerificationsInTurn == ~ret.overlapped => LockoutBounds

\* Three wrong passphrases in turn: the lockout is in effect and the next
\* call is refused without a verification
C36_LockedAfterThree ==
    /\ ~ret.overlapped
    /\ ret.op = "RateLimited"
    /\ ret.wrong_verified = MAX_ATTEMPTS
    /\ LockedOut(limiter, now)

\* A fourth wrong passphrase was verified by overlapping calls
C36_FourthVerified == ret.overlapped /\ ret.wrong_verified > MAX_ATTEMPTS

\* An overlapping call returned a key during a lockout
C36_KeyDuringLockout == ret.overlapped /\ ret.key_in_lockout

-----------------------------------------------------------------------------
(* VaultStore::change_passphrase step by step: unlock and get_seed with the *)
(* current passphrase, then the three writes of initialize_internal, any of *)
(* which can fail (the disk refuses it) or not be reached (the process is   *)
(* stopped).                                                                *)

MaxChangeOps == 4

ChangeSalts == {Salt, <<"salt2">>}
\* why a change_passphrase ends before its next write
ChangeAborts == {"Storage", "interrupted"}

\* unlock(passphrase) on a limiter without failures returns a key with which
\* get_seed yields seed_phrase
Opens(passphrase, seed_phrase) ==
    LET Unlocked(u) == u.res.ok /\ VaultStore_get_seed(files, u.res.val) = Ok(seed_phrase)
    IN  Unlocked(VaultStore_unlock(files, RateLimiter_new, now, passphrase, FALSE))

\* The passphrases that open the original seed
Opening == {passphrase \in LifePassphrases \cup {WrongPw} : Opens(passphrase, Seed)}

ChangeInit ==
    /\ \E v \in {VaultStore_initialize(<<>>, <<>>, Pw, Seed, Salt, Salt)} :
          /\ files = v.fs
          /\ versions = v.vc
    /\ mem = <<>>
    /\ mounts = <<>>
    /\ threads = [t \in Threads |-> Idle]
    /\ anchorLog = {}
    /\ writeLog = <<>>
    /\ ret = [op |-> "initialize"]
    /\ budget = MaxChangeOps
    /\ NoWatch
    /\ limiter = RateLimiter_new
    /\ now = 0
    /\ session = <<>>

changeUnused == <<mem, mounts, anchorLog, writeLog, watchVars, now, session>>

\* change_passphrase(current, new) up to its call of initialize_internal
ChangeBegin(current_passphrase, new_passphrase, salt) ==
    /\ budget > 0
    /\ AllIdle
    /\ \E u \in {VaultStore_unlock(files, limiter, now, current_passphrase, FALSE)} :
          /\ limiter' = u.limiter
          /\ \E seed \in {IF u.res.ok THEN VaultStore_get_seed(files, u.res.val) ELSE u.res} :
                IF seed.ok
                THEN /\ threads' = [threads EXCEPT ![1] =
                           [pc |-> "write", n |-> 1, current |-> current_passphrase,
                            passphrase |-> new_passphrase, seed_phrase |-> seed.val,
                            salt |-> salt, before |-> Opening]]
                     /\ ret' = [op |-> "get_seed"]
                ELSE /\ threads' = threads
                     /\ ret' = [op |-> "change_passphrase", res |-> seed, written |-> 0,
                                current |-> current_passphrase, new |-> new_passphrase,
                                before |-> Opening]
    /\ budget' = budget - 1
    /\ UNCHANGED <<files, versions>>
    /\ UNCHANGED changeUnused

\* The next write of initialize_internal; after the third the call returns
\* the new key
ChangeWrite ==
    /\ threads[1].pc = "write"
    /\ \E w \in {initialize_internal_write(files, versions, threads[1].n,
                     threads[1].passphrase, threads[1].seed_phrase,
                     threads[1].salt, threads[1].salt)} :
          /\ files' = w.fs
          /\ versions' = w.vc
          /\ IF w.res.ok /\ threads[1].n < 3
             THEN /\ threads' = [threads EXCEPT ![1].n = @ + 1]
                  /\ ret' = [op |-> "write"]
             ELSE /\ threads' = [threads EXCEPT ![1] = Idle]
                  /\ ret' = [op |-> "change_passphrase",
                             res |-> IF w.res.ok
                                     THEN Ok(derive_key(threads[1].passphrase, threads[1].salt))
                                     ELSE Err("Storage"),
                             written |-> IF w.res.ok THEN 3 ELSE threads[1].n - 1,
                             current |-> threads[1].current, new |-> threads[1].passphrase,
                             before |-> threads[1].before]
    /\ UNCHANGED <<budget, limiter>>
    /\ UNCHANGED changeUnused

\* The next write fails and its error is returned, or the process stops
\* before the write
ChangeAbort(cause) ==
    /\ threads[1].pc = "write"
    /\ threads' = [threads EXCEPT ![1] = Idle]
    /\ ret' = [op |-> "change_passphrase", res |-> Err(cause),
               written |-> threads[1].n - 1,
               current |-> threads[1].current, new |-> threads[1].passphrase,
               before |-> threads[1].before]
    /\ UNCHANGED <<files, versions, budget, limiter>>
    /\ UNCHANGED changeUnused

ChangeNext ==
    \/ \E current \in LifePassphrases \cup {WrongPw}, new \in LifePassphrases, salt \in ChangeSalts :
          ChangeBegin(current, new, salt)
    \/ ChangeWrite
    \/ \E cause \in ChangeAborts : ChangeAbort(cause)

ChangeSpec == ChangeInit /\ [][ChangeNext]_vars

ChangeReturned == ret.op = "change_passphrase"

\* C37: if change_passphrase fails or is interrupted after some but not all
\* of the records /passphrase-hash, /salt and /seed have been rewritten, the
\* vault still unlocks with the old passphrase or with the new one, and
\* get_seed with the key returned by that unlock yields the original seed.
C37_PartialChangeKeepsAccess ==
    ChangeReturned /\ ~ret.res.ok /\ ret.written \in 1..2 =>
        Opens(ret.current, Seed) \/ Opens(ret.new, Seed)

\* C37 for a change that ended before its first write or after its last: what
\* opened the seed before still opens it, respectively the new passphrase does
C37_WholeChangeKeepsAccess ==
    /\ ChangeReturned /\ ~ret.res.ok /\ ret.written = 0 => ret.before \subseteq Opening
    /\ ChangeReturned /\ ret.res.ok =>
          /\ ret.written = 3
          /\ Opens(ret.new, Seed)
          /\ VaultStore_get_seed(files, ret.res.val) = Ok(Seed)

\* A change to another passphrase has gone through
C37_Changed == ChangeReturned /\ ret.res.ok /\ ret.new # ret.current

\* A change ended after one or two writes and neither passphrase opens the seed
C37_LockedOutOfSeed ==
    /\ ChangeReturned /\ ~ret.res.ok /\ ret.written \in 1..2
    /\ \A passphrase \in LifePassphrases \cup {WrongPw} : ~Opens(passphrase, Seed)

-----------------------------------------------------------------------------
(* WalletPersistence (wallet_spark/persistence.rs): the reactor cache in    *)
(* front of the store                                                       *)

WalletPrefix == <<"/", "w", "a", "l", "l", "e", "t", "/">>
WalletBalance == WalletPrefix \o <<"b", "a", "l", "a", "n", "c", "e">>
WalletSynced == WalletPrefix \o <<"s", "y", "n", "c", "e", "d">>

PERSISTENT_PATHS ==
    {WalletBalance, WalletPrefix \o <<"t", "x", "/">>,
     WalletPrefix \o <<"c", "o", "n", "f", "i", "g">>,
     WalletPrefix \o <<"a", "d", "d", "r", "e", "s", "s">>,
     WalletPrefix \o <<"p", "u", "b", "k", "e", "y">>}

EPHEMERAL_PATHS == {WalletSynced, WalletPrefix \o <<"s", "t", "a", "t", "u", "s">>}

\* should_persist
should_persist(path) ==
    IF \E prefix \in EPHEMERAL_PATHS : StartsWith(path, prefix) THEN FALSE
    ELSE IF \E prefix \in PERSISTENT_PATHS : StartsWith(path, prefix) THEN TRUE
    ELSE StartsWith(path, WalletPrefix)

-----------------------------------------------------------------------------
(* Threads calling WalletPersistence::persist.  persist runs reactor.emit   *)
(* and then store.write_scroll, with no lock around the two.  mem holds the *)
(* reactor cache, files the store; ret.overlapped keeps the keys for which  *)
(* a persist began while another persist of the key was under way.          *)

MaxPersists == 3

PersistKeys == {WalletBalance, WalletSynced}

PersistInit ==
    /\ files = <<>>
    /\ versions = <<>>
    /\ mem = [c \in {Cache} |-> <<>>]
    /\ mounts = <<>>
    /\ threads = [t \in Threads |-> Idle]
    /\ anchorLog = {}
    /\ writeLog = <<>>
    /\ ret = [op |-> "new", overlapped |-> {}, failed |-> {}]
    /\ budget = MaxPersists
    /\ NoWatch
    /\ NoVault

persistUnused == <<mounts, anchorLog, writeLog, watchVars, vaultVars>>

\* Thread t calls persist(scroll): reactor.emit, and the return for a key
\* that is not persisted
PersistEmit(t, key, data) ==
    /\ budget > 0
    /\ threads[t] = Idle
    /\ \E scroll \in {ScrollNew(key, data)} :
          /\ mem' = [mem EXCEPT ![Cache] = WalletReactor_update_state(@, scroll)]
          /\ threads' = [threads EXCEPT ![t] =
                IF should_persist(key) THEN [pc |-> "write_scroll", scroll |-> scroll]
                ELSE Idle]
    /\ ret' = [ret EXCEPT !.op = "emit",
                   !.overlapped = IF \E u \in Threads : /\ threads[u] # Idle
                                                        /\ threads[u].scroll.key = key
                                  THEN @ \cup {key} ELSE @]
    /\ budget' = budget - 1
    /\ UNCHANGED <<files, versions>>
    /\ UNCHANGED persistUnused

\* Thread t runs store.write_scroll and returns from persist
PersistWrite(t) ==
    /\ threads[t] # Idle
    /\ \E w \in {Store_write_scroll(files, versions, threads[t].scroll)} :
          /\ files' = w.fs
          /\ versions' = w.vc
          /\ ret' = [ret EXCEPT !.op = "persist",
                         !.failed = IF w.res.ok THEN @ ELSE @ \cup {threads[t].scroll.key}]
    /\ threads' = [threads EXCEPT ![t] = Idle]
    /\ UNCHANGED <<mem, budget>>
    /\ UNCHANGED persistUnused

PersistNext ==
    \/ \E t \in Threads, key \in PersistKeys, data \in WriteData : PersistEmit(t, key, data)
    \/ \E t \in Threads : PersistWrite(t)

PersistSpec == PersistInit /\ [][PersistNext]_vars

\* The reactor cache and the store hold the same data for key k
CacheIsStore(k) ==
    LET Same(cached, stored) ==
            /\ stored.ok
            /\ stored.val.some = cached.some
            /\ cached.some => stored.val.v.data = cached.v.data
    IN  Same(WalletReactor_get_cached(mem[Cache], k), Store_read(files, k))

\* Every persist of key k has returned, and returned Ok
AllPersisted(k) ==
    /\ \A t \in Threads : threads[t] # Idle => threads[t].scroll.key # k
    /\ k \notin ret.failed

\* C38: persisting is write-through: after all persist calls for one
\* persisted key have returned successfully, the reactor cache and the store
\* hold the same data for that key, also when the persist calls ran
\* concurrently.
C38_WriteThrough ==
    \A k \in PersistKeys : should_persist(k) /\ AllPersisted(k) => CacheIsStore(k)

\* C38 for persist calls of a key that do not overlap
C38_WriteThroughInTurn ==
    \A k \in PersistKeys :
        should_persist(k) /\ AllPersisted(k) /\ k \notin ret.overlapped => CacheIsStore(k)

\* Two persists of the balance in turn with different data: cache and store
\* both hold the second, at version 2
C38_PersistedTwice ==
    LET Twice(stored) == stored.ok /\ stored.val.some /\ stored.val.v.version = 2
    IN  /\ AllIdle
        /\ ret.overlapped = {}
        /\ Twice(Store_read(files, WalletBalance))
        /\ WalletReactor_get_cached(mem[Cache], WalletBalance).v.data = D2

\* Two overlapping persists of the balance have returned Ok and the store
\* holds other data than the cache
C38_CacheAhead ==
    /\ AllIdle
    /\ ret.failed = {}
    /\ WalletBalance \in ret.overlapped
    /\ ~CacheIsStore(WalletBalance)

-----------------------------------------------------------------------------
(* Writes through the file backend to paths that name the root, a key       *)
(* called root, and one key spelt with a trailing and with a doubled slash  *)

MaxFrameOps == 3

RootKey == <<"/", "r", "o", "o", "t">>
FramePaths == {Root, RootKey, KeyA, KeyA \o <<"/">>, <<"/">> \o KeyA, KeyB}

FrameInit ==
    /\ files = <<>>
    /\ versions = <<>>
    /\ mem = <<>>
    /\ mounts = <<>>
    /\ threads = <<>>
    /\ anchorLog = {}
    /\ writeLog = <<>>
    /\ ret = [op |-> "open"]
    /\ budget = MaxFrameOps
    /\ NoWatch
    /\ NoVault

frameUnused == <<mem, mounts, threads, anchorLog, writeLog, watchVars, vaultVars>>

\* ns.write(p, data); ret keeps what read returned for every path before
FrameWrite(p, data) ==
    /\ budget > 0
    /\ \E w \in {FileNamespace_write(files, versions, p, data)} :
          /\ files' = w.fs
          /\ versions' = w.vc
          /\ ret' = [op |-> "write", path |-> p, res |-> w.res,
                     before |-> [q \in FramePaths |-> FileNamespace_read(files, q)]]
    /\ budget' = budget - 1
    /\ UNCHANGED frameUnused

\* The namespace is opened again on the same directory: the version cache
\* starts empty
FrameReopen ==
    /\ budget > 0
    /\ versions # <<>>
    /\ versions' = <<>>
    /\ ret' = [op |-> "open"]
    /\ budget' = budget - 1
    /\ UNCHANGED files
    /\ UNCHANGED frameUnused

FrameNext ==
    \/ \E p \in FramePaths, data \in WriteData : FrameWrite(p, data)
    \/ FrameReopen

FrameSpec == FrameInit /\ [][FrameNext]_vars

\* read(q) returns what it returned before the write
Untouched(q) == FileNamespace_read(files, q) = ret.before[q]

\* C39: in the file backend a write to a valid path p changes nothing for any
\* other valid path q: read(q) returns the same scroll before and after, for
\* all pairs of valid paths including "/" and "/root", and paths that differ
\* only by a trailing or doubled slash.
C39_WriteChangesOnlyItsPath ==
    ret.op = "write" =>
        \A q \in FramePaths : validate_path(q) /\ q # ret.path => Untouched(q)

\* C39 for paths that scroll_path_to_fs maps to different files
C39_WriteChangesOnlyItsFile ==
    ret.op = "write" =>
        \A q \in FramePaths :
            validate_path(q) /\ scroll_path_to_fs(q) # scroll_path_to_fs(ret.path)
                => Untouched(q)

\* A write to /a/b left the scroll written at /a as it was
C39_OtherKept ==
    /\ ret.op = "write" /\ ret.res.ok /\ ret.path = KeyB
    /\ ret.before[KeyA].val.some
    /\ Untouched(KeyA)

\* A write to /root replaced the scroll that read("/") returns
C39_RootReplaced ==
    /\ ret.op = "write" /\ ret.res.ok /\ ret.path = RootKey
    /\ validate_path(Root) /\ validate_path(RootKey)
    /\ ret.before[Root].val.some
    /\ ~Untouched(Root)

\* A write to /a/ replaced the scroll that read("/a") returns
C39_TrailingSlashReplaced ==
    /\ ret.op = "write" /\ ret.res.ok /\ ret.path = KeyA \o <<"/">>
    /\ validate_path(KeyA \o <<"/">>)
    /\ ret.before[KeyA].val.some
    /\ ~Untouched(KeyA)

-----------------------------------------------------------------------------
(* The store's operations called with paths that leave its directory.  Next *)
(* to the store's directory lies the directory x of another store, in which *)
(* the scroll /a was written once; files outside the store's directory are  *)
(* named from it, beginning with "..".                                      *)

MaxTraverseOps == 3

SiblingDir == <<DotDot, <<"x">>>>
UpToSibling == <<"/", ".", ".", "/", ".", ".", "/", "x", "/">>
\* /../../x/_scrolls/a and /../../x/_history/a
SiblingScroll == UpToSibling \o ScrollsDir \o KeyA
SiblingHistory == UpToSibling \o HistoryDir \o KeyA
CurDirKey == <<"/", ".">> \o KeyA

TraversePaths == {KeyA, CurDirKey, SiblingScroll, SiblingHistory}

\* The files of a store in which /a was written once, seen from the store
\* next to it
SiblingFiles ==
    LET Moved(fs) == [f \in {SiblingDir \o g : g \in DOMAIN fs} |->
                         fs[SubSeq(f, Len(SiblingDir) + 1, Len(f))]]
    IN  Moved(Store_write(<<>>, <<>>, KeyA, D1).fs)

TraverseInit ==
    /\ files = SiblingFiles
    /\ versions = <<>>
    /\ mem = <<>>
    /\ mounts = <<>>
    /\ threads = <<>>
    /\ anchorLog = {}
    /\ writeLog = <<>>
    /\ ret = [op |-> "open"]
    /\ budget = MaxTraverseOps
    /\ NoWatch
    /\ NoVault

traverseUnused == <<mem, mounts, threads, anchorLog, writeLog, watchVars, vaultVars>>

\* The file or directory an operation looks up first for its path argument;
\* none when the path is refused before
Touched(op, path) ==
    IF op = "delete"
    THEN {Resolve(<<ScrollsDir>> \o Components(TrimStartMatches(path, Slash) \o JsonExt))}
    ELSE IF op \in {"history", "state_at", "compact"} THEN {history_dir_for_path(path)}
    ELSE IF op = "anchors" THEN {Append(history_dir_for_path(path), AnchorsDir)}
    ELSE IF ~validate_path(path) THEN {}
    ELSE IF op = "prune" THEN {<<ScrollsDir>>}
    ELSE {scroll_path_to_fs(path)}

\* What a call leaves in ret
Traversed(op, path, res) ==
    [op |-> op, path |-> path, res |-> res, before |-> files, touched |-> Touched(op, path)]

TraverseRead(path) ==
    /\ budget > 0
    /\ ret' = Traversed("read", path, Store_read(files, path))
    /\ budget' = budget - 1
    /\ UNCHANGED <<files, versions>>
    /\ UNCHANGED traverseUnused

TraverseWrite(path, data) ==
    /\ budget > 0
    /\ \E w \in {Store_write(files, versions, path, data)} :
          /\ files' = w.fs
          /\ versions' = w.vc
          /\ ret' = Traversed("write", path, w.res)
    /\ budget' = budget - 1
    /\ UNCHANGED traverseUnused

TraverseDelete(path) ==
    /\ budget > 0
    /\ \E r \in {Store_delete(files, path)} :
          /\ files' = r.fs
          /\ ret' = Traversed("delete", path, r.res)
    /\ budget' = budget - 1
    /\ UNCHANGED versions
    /\ UNCHANGED traverseUnused

TraverseCompact(path, keep_since_seq) ==
    /\ budget > 0
    /\ \E r \in {Store_compact(files, path, keep_since_seq)} :
          /\ files' = r.fs
          /\ ret' = Traversed("compact", path, r.res)
    /\ budget' = budget - 1
    /\ UNCHANGED versions
    /\ UNCHANGED traverseUnused

\* history, anchors and state_at
TraverseQuery(op, path) ==
    /\ budget > 0
    /\ ret' = Traversed(op, path,
                        IF op = "history" THEN Store_history(files, path)
                        ELSE IF op = "anchors" THEN Store_anchors(files, path)
                        ELSE Store_state_at(files, path, 1))
    /\ budget' = budget - 1
    /\ UNCHANGED <<files, versions>>
    /\ UNCHANGED traverseUnused

\* prune(prefix, 0)
TraversePrune(prefix) ==
    /\ budget > 0
    /\ \E listed \in {FileNamespace_list(files, prefix)} :
          IF ~listed.ok
          THEN /\ files' = files
               /\ ret' = Traversed("prune", prefix, listed)
          ELSE \E order \in Orders(listed.val) :
                  \E r \in {Store_prune(files, order, 0)} :
                      /\ files' = r.fs
                      /\ ret' = Traversed("prune", prefix, r.res)
    /\ budget' = budget - 1
    /\ UNCHANGED versions
    /\ UNCHANGED traverseUnused

TraverseNext ==
    \/ \E path \in TraversePaths : TraverseRead(path)
    \/ \E path \in TraversePaths : TraverseWrite(path, D1)
    \/ \E path \in TraversePaths : TraverseDelete(path)
    \/ \E path \in TraversePaths : TraverseCompact(path, Some(2))
    \/ \E op \in {"history", "anchors", "state_at"}, path \in TraversePaths :
          TraverseQuery(op, path)
    \/ \E path \in TraversePaths : TraversePrune(path)

TraverseSpec == TraverseInit /\ [][TraverseNext]_vars

\* The files outside the store's directory
OutsideFiles(fs) == [f \in {g \in DOMAIN fs : OutsideBase(g)} |-> fs[f]]

\* The call looked up nothing outside the store's directory and left the
\* files outside as they were
StayedInside ==
    /\ \A f \in ret.touched : ~OutsideBase(f)
    /\ OutsideFiles(files) = OutsideFiles(ret.before)

\* The call refused a path with a "." or ".." segment before any lookup
RefusedTraversal ==
    HasTraversalSegment(ret.path) => ret.res = Err("InvalidPath") /\ ret.touched = {}

\* C40: no store operation that takes a path (delete, compact, history,
\* anchors, state_at, prune, as well as read and write) reads, creates or
\* removes a file outside the store's root directory, for any path argument;
\* a path containing a "." or ".." segment is rejected before the filesystem
\* is touched.
C40_StoreStaysInRoot == ret.op # "open" => StayedInside /\ RefusedTraversal

\* C40 for read, write and prune, which validate the path, and for the other
\* operations called with a path without a ".." segment
C40_ValidatedStaysInRoot ==
    /\ ret.op \in {"read", "write", "prune"} => StayedInside /\ RefusedTraversal
    /\ ret.op # "open" /\ ~OutsideBase(history_dir_for_path(ret.path)) => StayedInside

\* A write through a path that leaves the directory was refused after /a was
\* written
C40_WriteRefused ==
    /\ ret.op = "write" /\ ret.path = SiblingScroll
    /\ ret.res = Err("InvalidPath")
    /\ Store_read(files, KeyA).val.some

\* delete removed the scroll file of the store next door
C40_SiblingScrollRemoved ==
    /\ ret.op = "delete" /\ ret.path = SiblingScroll /\ ret.res.ok
    /\ \E f \in DOMAIN ret.before : OutsideBase(f) /\ f \notin DOMAIN files

\* history returned the patches of the store next door
C40_SiblingHistoryRead ==
    /\ ret.op = "history" /\ ret.path = SiblingHistory
    /\ ret.res.ok /\ ret.res.val # <<>>

====
